---- MODULE Spec2Model ----
(***************************************************************************)
(* Model of the ai-cli server: the session registry, the conversation     *)
(* orchestrator (ChatManager) driven by the chat routes, the echo test    *)
(* provider, the project routes and the global settings routes, the tools  *)
(* (tool manager, run_command, write_file, edit_file, read_file) and the  *)
(* command-line client's project registry and project picker.             *)
(***************************************************************************)
EXTENDS Integers, Sequences, FiniteSets, TLC

VARIABLES
    sessions,          \* SessionManager.sessions: session id -> ConversationSession
    project_sessions,  \* SessionManager.project_sessions: project id -> session id
    nextSid,           \* next fresh session id (uuid4 never repeats)
    now,               \* wall clock, in seconds
    lastCall,          \* the last call made on the registry and what it returned
    managers,          \* ChatManager instances, keyed by the session created with them
    reqs,              \* chat requests: handler outcome and position of the step generator
    ntools,            \* number of tools registered with the ToolManager
    projects,          \* table projects: id -> row
    nextProjectId,     \* AUTOINCREMENT counter of table projects
    chat_history,      \* table chat_history, in insertion order
    nextRowId,         \* AUTOINCREMENT counter of table chat_history
    global_settings,   \* table global_settings: config_name -> config_data
    response,          \* the last HTTP response of the project and settings routes
    tools,             \* ToolManager.tools: the names of the registered tools
    disk,              \* the file system: absolute path -> directory, file or symlink
    tool_result,       \* the last tool call and the ToolResult it returned
    effects,           \* what the last tool call did to the file system and to processes
    config_file,       \* ~/.ai-cli/config.json: the projects of the CLI registry, in order
    ui_projects,       \* NanoStyleUI.projects: the list the picker loaded last
    selected_index,    \* NanoStyleUI.selected_index
    scroll_offset,     \* NanoStyleUI.scroll_offset
    terminal_height,   \* NanoStyleUI.terminal_height
    screen,            \* the rows of the project list printed by the last redraw
    cli_call,          \* the last call made on the CLI registry or the picker, and its outcome
    stdin,             \* the characters typed at the terminal and not yet read
    terminal,          \* the terminal: its mode, its cursor, and NanoStyleUI.old_settings
    picker_run         \* NanoStyleUI.run: where it stands and what it returned

registryVars == <<sessions, project_sessions, nextSid, now, lastCall>>
toolVars == <<tools, disk, tool_result, effects>>
ttyVars == <<stdin, terminal, picker_run>>
cliVars == <<config_file, ui_projects, selected_index, scroll_offset, terminal_height,
             screen, cli_call, ttyVars>>
envVars == <<ntools, toolVars, cliVars>>
chatVars == <<managers, reqs, envVars>>
dbVars == <<projects, nextProjectId, chat_history, nextRowId>>
settingsVars == <<global_settings, response>>
vars == <<registryVars, chatVars, dbVars, settingsVars>>

\* ---------------------------------------------------------------- bounds
MaxSessions == 4       \* session ids handed out in one run
MaxTicks == 3          \* clock advances in one run
ProjectIds == {1, 2}   \* project ids used by the requests

\* ------------------------------------------------------------- constants
SessionTimeout == 3600 \* ConversationSession.is_expired default timeout
TickSeconds == 1801    \* one clock advance; two of them exceed the timeout

\* ------------------------------------------------------- partial mappings
Remove(f, k) == [x \in (DOMAIN f) \ {k} |-> f[x]]
Put(f, k, v) == (k :> v) @@ f

\* ------------------------------------------------- core/session_manager.py
\* The registry is passed around as a record of its two dictionaries.
Registry == [sessions |-> sessions, project_sessions |-> project_sessions]

is_expired(session, timeout) == now - session.last_activity > timeout

cleanup_project_session_keep(sm, project_id) == sm

cleanup_project_session(sm, project_id) ==
    IF project_id \in DOMAIN sm.project_sessions
    THEN LET old_session_id == sm.project_sessions[project_id]
         IN [sessions |-> IF old_session_id \in DOMAIN sm.sessions
                          THEN Remove(sm.sessions, old_session_id)
                          ELSE sm.sessions,
             project_sessions |-> Remove(sm.project_sessions, project_id)]
    ELSE sm

create_session(sm, session_id, project_id, chat_manager) ==
    LET cleaned == cleanup_project_session(sm, project_id)
        session == [project_id |-> project_id,
                    chat_manager |-> chat_manager,
                    created_at |-> now,
                    last_activity |-> now]
    IN [sessions |-> Put(cleaned.sessions, session_id, session),
        project_sessions |-> Put(cleaned.project_sessions, project_id, session_id)]

\* get_session returns the session (here its id) or no value (here 0), and
\* refreshes last_activity
get_session_result(sm, session_id) ==
    IF session_id \in DOMAIN sm.sessions THEN session_id ELSE 0

get_session(sm, session_id) ==
    IF session_id \in DOMAIN sm.sessions
    THEN [sm EXCEPT !.sessions[session_id].last_activity = now]
    ELSE sm

get_project_session_result(sm, project_id) ==
    IF project_id \in DOMAIN sm.project_sessions
    THEN get_session_result(sm, sm.project_sessions[project_id])
    ELSE 0

get_project_session(sm, project_id) ==
    IF project_id \in DOMAIN sm.project_sessions
    THEN get_session(sm, sm.project_sessions[project_id])
    ELSE sm

cleanup_session_keeps_mapping(sm, session_id) ==
    IF session_id \in DOMAIN sm.sessions
    THEN [sessions |-> Remove(sm.sessions, session_id),
          project_sessions |-> sm.project_sessions]
    ELSE sm

cleanup_session(sm, session_id) ==
    IF session_id \in DOMAIN sm.sessions
    THEN LET session == sm.sessions[session_id]
         IN [sessions |-> Remove(sm.sessions, session_id),
             project_sessions |->
                 IF session.project_id \in DOMAIN sm.project_sessions
                 THEN Remove(sm.project_sessions, session.project_id)
                 ELSE sm.project_sessions]
    ELSE sm

RECURSIVE cleanup_all(_, _)
cleanup_all(sm, ids) ==
    IF ids = {} THEN sm
    ELSE LET s == CHOOSE x \in ids : TRUE
         IN cleanup_all(cleanup_session(sm, s), ids \ {s})

cleanup_expired_sessions(sm, timeout) ==
    LET expired_sessions == {s \in DOMAIN sm.sessions : is_expired(sm.sessions[s], timeout)}
    IN cleanup_all(sm, expired_sessions)

get_session_count(sm) == Cardinality(DOMAIN sm.sessions)

\* ------------------------------------------- registry calls as actions
SetRegistry(sm) ==
    /\ sessions' = sm.sessions
    /\ project_sessions' = sm.project_sessions

CreateSession(p) ==
    /\ nextSid <= MaxSessions
    /\ SetRegistry(create_session(Registry, nextSid, p, nextSid))
    /\ nextSid' = nextSid + 1
    /\ lastCall' = [op |-> "create_session", arg |-> p, result |-> nextSid]
    /\ UNCHANGED <<now, chatVars, dbVars, settingsVars>>

GetSession(s) ==
    /\ SetRegistry(get_session(Registry, s))
    /\ lastCall' = [op |-> "get_session", arg |-> s,
                    result |-> get_session_result(Registry, s)]
    /\ UNCHANGED <<nextSid, now, chatVars, dbVars, settingsVars>>

GetProjectSession(p) ==
    /\ SetRegistry(get_project_session(Registry, p))
    /\ lastCall' = [op |-> "get_project_session", arg |-> p,
                    result |-> get_project_session_result(Registry, p)]
    /\ UNCHANGED <<nextSid, now, chatVars, dbVars, settingsVars>>

CleanupSession(s) ==
    /\ SetRegistry(cleanup_session(Registry, s))
    /\ lastCall' = [op |-> "cleanup_session", arg |-> s, result |-> 0]
    /\ UNCHANGED <<nextSid, now, chatVars, dbVars, settingsVars>>

CleanupProjectSession(p) ==
    /\ SetRegistry(cleanup_project_session(Registry, p))
    /\ lastCall' = [op |-> "cleanup_project_session", arg |-> p, result |-> 0]
    /\ UNCHANGED <<nextSid, now, chatVars, dbVars, settingsVars>>

CleanupExpiredSessions ==
    /\ SetRegistry(cleanup_expired_sessions(Registry, SessionTimeout))
    /\ lastCall' = [op |-> "cleanup_expired_sessions", arg |-> SessionTimeout,
                    result |-> 0]
    /\ UNCHANGED <<nextSid, now, chatVars, dbVars, settingsVars>>

Tick ==
    /\ now < MaxTicks * TickSeconds
    /\ now' = now + TickSeconds
    /\ UNCHANGED <<sessions, project_sessions, nextSid, lastCall, chatVars, dbVars, settingsVars>>

\* ----------------------------------------------------- core/base_types.py
\* A message content is kept as what decides the program's branches: its
\* kind, the text it was built from (of, a, b) and a number n.
Content(kind, of, a, b, n) == [kind |-> kind, of |-> of, a |-> a, b |-> b, n |-> n]

\* ChatMessage: cmd is the match of the pattern "call N tools M times" on
\* the lower-cased content (<<N, M>>, or <<>> when it does not match), and
\* tool_calls is <<>> when the message carries none.
ChatMessage(role, content, cmd, tool_calls, tool_call_id) ==
    [role |-> role, content |-> content, cmd |-> cmd, tool_calls |-> tool_calls,
     tool_call_id |-> tool_call_id]

ToolCall(id, name) == [id |-> id, name |-> name]

UserText(cmd) == IF cmd = <<>> THEN Content("plain", "", 0, 0, 0)
                 ELSE Content("command", "", cmd[1], cmd[2], 0)

UserMessage(cmd) == ChatMessage("user", UserText(cmd), cmd, <<>>, 0)

Min(a, b) == IF a < b THEN a ELSE b

\* ----------------------------------------------------- core/chat_manager.py
max_tool_iterations == 10
max_messages == 20

LastN(seq, n) == SubSeq(seq, Len(seq) - n + 1, Len(seq))

MatchesToolPattern(msg) == msg.cmd # <<>>

_build_provider_context_first_added(messages) ==
    IF Len(messages) <= max_messages THEN messages
    ELSE LET recent_messages == LastN(messages, max_messages)
             first_message == messages[1]
         IN IF first_message.role = "user" /\ MatchesToolPattern(first_message)
            THEN <<first_message>> \o recent_messages
            ELSE recent_messages

_build_provider_context(messages) ==
    IF Len(messages) <= max_messages THEN messages
    ELSE LET recent_messages == LastN(messages, max_messages)
             first_message == messages[1]
         IN IF first_message.role = "user" /\ MatchesToolPattern(first_message)
            THEN <<first_message>> \o Tail(recent_messages)
            ELSE recent_messages

\* ------------------------------------------ providers/echo_test_provider.py
MaxEchoTools == 5        \* cap on N
MaxEchoIterations == 3   \* cap on M

UserIndexes(messages) == {i \in 1..Len(messages) : messages[i].role = "user"}
CommandIndexes(messages) ==
    {i \in UserIndexes(messages) : MatchesToolPattern(messages[i])}

MaxOf(S) == CHOOSE x \in S : \A y \in S : y <= x
MinOf(S) == CHOOSE x \in S : \A y \in S : x <= y

\* generate: the content of the last user message of the context
NoUserMessage == Content("no_user_message", "", 0, 0, 0)
LastUserMessage(messages) ==
    IF UserIndexes(messages) = {} THEN [content |-> NoUserMessage, cmd |-> <<>>]
    ELSE LET m == messages[MaxOf(UserIndexes(messages))]
         IN [content |-> m.content, cmd |-> m.cmd]

\* "last_tool_command_index": the loop breaks at the first match it meets
\* walking the context from its start
last_tool_command_index(messages) ==
    IF CommandIndexes(messages) = {} THEN 0 ELSE MinOf(CommandIndexes(messages))

tool_rounds_completed(messages) ==
    LET start == last_tool_command_index(messages)
    IN IF start = 0 THEN 0
       ELSE Cardinality({i \in (start + 1)..Len(messages) :
                            /\ messages[i].role = "assistant"
                            /\ messages[i].tool_calls # <<>>})

\* the command _parse_tool_command works from: the match on the current
\* message, else the match on the most recent matching user message
GoverningCommand(message, messages) ==
    IF message.cmd # <<>> THEN message.cmd
    ELSE IF CommandIndexes(messages) = {} THEN <<>>
    ELSE messages[MaxOf(CommandIndexes(messages))].cmd

num_iterations_uncapped(cmd) == cmd[2]

num_iterations_no_cap(cmd) == cmd[2]

num_iterations(cmd) == Min(cmd[2], MaxEchoIterations)

num_tools(cmd, available) == Min(Min(cmd[1], available), MaxEchoTools)

\* number of tool calls _parse_tool_command returns (0: an empty list)
ParseToolCommandCount(message, messages, available) ==
    LET cmd == GoverningCommand(message, messages)
    IN IF cmd = <<>> THEN 0
       ELSE IF available = 0 THEN 0
       ELSE IF tool_rounds_completed(messages) >= num_iterations(cmd) THEN 0
       ELSE Min(num_tools(cmd, available), available)

\* _create_test_tool_call: id test_call_{iteration}_{index}_{random}
EchoCallId(iteration, index, rnd) == <<iteration, index, rnd>>

\* random.sample(available_tools, k): k distinct tools, here the k tools
\* that follow a random offset
SampleTools(available, k, offset) ==
    [i \in 1..k |-> ((i - 1 + offset) % available) + 1]

_parse_tool_command(message, messages, available, offset, rnd) ==
    LET k == ParseToolCommandCount(message, messages, available)
        iteration == tool_rounds_completed(messages)
        selected_tools == SampleTools(available, k, offset)
    IN [i \in 1..k |-> ToolCall(EchoCallId(iteration, i - 1, rnd), selected_tools[i])]

EchoContent(messages, tool_calls) ==
    LET last_message == LastUserMessage(messages)
        rounds == tool_rounds_completed(messages)
        user_match == messages[last_tool_command_index(messages)].cmd
    IN IF tool_calls # <<>>
       THEN Content("calling", last_message.content.kind,
                    last_message.content.a, last_message.content.b, Len(tool_calls))
       ELSE IF rounds > 0
       THEN IF rounds < num_iterations_uncapped(user_match)
            THEN Content("round_completed", "", 0, 0, rounds)
            ELSE Content("all_rounds_completed", "", 0, 0, rounds)
       ELSE Content("echo", last_message.content.kind,
                    last_message.content.a, last_message.content.b, 0)

\* EchoTestProvider.generate: a ChatResponse (content, tool_calls)
EchoGenerate(messages, available, offset, rnd) ==
    LET last_message == LastUserMessage(messages)
        tool_calls == _parse_tool_command(last_message, messages, available, offset, rnd)
    IN [content |-> EchoContent(messages, tool_calls), tool_calls |-> tool_calls,
        raised |-> FALSE]

\* --------------------------------------------- providers/gemini_provider.py
GeminiBatchSizes == {1, 2}      \* functionCall parts in one response
RandomSuffixes == {1000, 1001}  \* values of random.randint(1000, 9999)

\* parse_response: id gemini_call_{int(timestamp)}_{random}
GeminiCallId(timestamp, rnd) == <<timestamp, rnd>>

GeminiToolCalls(timestamp, names) ==
    UNION {[1..k -> {ToolCall(GeminiCallId(timestamp, rnd), name) :
                        rnd \in RandomSuffixes, name \in names}] :
           k \in GeminiBatchSizes}

\* GeminiProvider.generate: raises on a network or HTTP failure, else
\* whatever the remote model answered
GeminiGenerate(timestamp, names) ==
    {[content |-> Content("text", "", 0, 0, n), tool_calls |-> <<>>, raised |-> FALSE] :
        n \in {0, 1}}
    \cup {[content |-> Content("text", "", 0, 0, 1), tool_calls |-> tcs, raised |-> FALSE] :
        tcs \in GeminiToolCalls(timestamp, names)}
    \cup {[content |-> Content("text", "", 0, 0, 0), tool_calls |-> <<>>, raised |-> TRUE]}

\* --------------------------------------------------- memory/chat_memory.py
HistoryLimit == 20   \* limit passed by the stream endpoint

RowsOf(rows, project_id) == SelectSeq(rows, LAMBDA row : row.project_id = project_id)

get_recent_history(rows, project_id, limit) ==
    LET mine == RowsOf(rows, project_id)
    IN IF Len(mine) <= limit THEN mine ELSE LastN(mine, limit)

save_message(rows, id, project_id, cmd, turns) ==
    Append(rows, [id |-> id, project_id |-> project_id, cmd |-> cmd, turns |-> turns])

\* routes/chat.py: each record becomes a user turn and an assistant turn
RECURSIVE ConversationHistory(_)
ConversationHistory(rows) ==
    IF rows = <<>> THEN <<>>
    ELSE <<ChatMessage("user", Content("json", "", Head(rows).id, 0, Head(rows).turns),
                       Head(rows).cmd, <<>>, 0),
           ChatMessage("assistant", Content("summary", "", Head(rows).id, 0, 0),
                       <<>>, <<>>, 0)>>
         \o ConversationHistory(Tail(rows))

\* ----------------------------------------------------- core/chat_manager.py
ConversationStep(state, content, tool_calls, tool_results, error) ==
    [state |-> state, content |-> content, tool_calls |-> tool_calls,
     tool_results |-> tool_results, error |-> error]

NoContent == Content("none", "", 0, 0, 0)

ChatManager(provider, project_id) ==
    [provider |-> provider, project_id |-> project_id, messages |-> <<>>]

\* the answers provider.generate can give to this manager
Generate(cm, offsets) ==
    IF cm.provider = "echo_test"
    THEN {EchoGenerate(_build_provider_context(cm.messages), ntools, offset, 1000) :
             offset \in offsets}
    ELSE GeminiGenerate(now, 1..ntools)

AssistantMessage(resp) == ChatMessage("assistant", resp.content, <<>>, resp.tool_calls, 0)

\* _save_final_conversation: the slice from the last user message on, or
\* nothing when the transcript holds no user message
_save_final_conversation(rows, id, cm) ==
    IF UserIndexes(cm.messages) = {} THEN rows
    ELSE LET last_user_index == MaxOf(UserIndexes(cm.messages))
         IN save_message(rows, id, cm.project_id, cm.messages[last_user_index].cmd,
                         Len(cm.messages) - last_user_index + 1)

ToolOutcome_unless_denied(tool_call, approved_tools, denied_tools) ==
    IF tool_call.id \in denied_tools THEN "denied" ELSE "executed"

\* the outcome recorded for one pending call (lines 194-225)
ToolOutcome(tool_call, approved_tools, denied_tools) ==
    IF tool_call.id \in approved_tools THEN "executed"
    ELSE IF tool_call.id \in denied_tools THEN "denied"
    ELSE "skipped"

ToolResults(pending, approved_tools, denied_tools) ==
    LET all == [i \in 1..Len(pending) |->
                   [tool_call_id |-> pending[i].id, name |-> pending[i].name,
                    outcome |-> ToolOutcome(pending[i], approved_tools, denied_tools)]]
    IN SelectSeq(all, LAMBDA res : res.outcome # "skipped")

ToolMessages_reversed(tool_results) ==
    [i \in 1..Len(tool_results) |->
        ChatMessage("tool", Content(tool_results[Len(tool_results) + 1 - i].outcome, "", 0, 0, 0),
                    <<>>, <<>>, tool_results[Len(tool_results) + 1 - i].name)]

\* one tool message per result, in the order of the results (lines 227-234)
ToolMessages(tool_results) ==
    [i \in 1..Len(tool_results) |->
        \* tool_call_id carries the tool's name
        ChatMessage("tool", Content(tool_results[i].outcome, "", 0, 0, 0),
                    <<>>, <<>>, tool_results[i].name)]

\* ------------------------------------------------------ routes/chat.py
MaxRequests == 2   \* chat requests in one run

Request(kind, session_id, project_id, status, pc) ==
    [kind |-> kind, session_id |-> session_id, project_id |-> project_id,
     status |-> status, pc |-> pc,
     user_message |-> <<>>, conversation_history |-> <<>>,
     approved_tools |-> {}, denied_tools |-> {},
     pending |-> <<>>, index |-> 1, executed |-> <<>>,
     iteration |-> 0, generations |-> 0, tool_rounds |-> 0, raised |-> FALSE,
     first_content |-> NoContent, provider_messages |-> <<>>, steps |-> <<>>]

Emit_twice(req, step) == [req EXCEPT !.steps = @ \o <<step, step>>]

Emit(req, step) == [req EXCEPT !.steps = Append(@, step)]

Manager(r) == managers[reqs[r].session_id]

\* provider_messages = self._build_provider_context(): the context a
\* generator hands to provider.generate
WithContext(r) ==
    [reqs[r] EXCEPT !.provider_messages = _build_provider_context(Manager(r).messages)]

\* where a generator goes once its step has been sent
AfterToolApprovalContinues == "generating"
AfterToolApproval == "done"
AfterSave == "done"
AfterErrorSaves == "completed"
AfterError == "failed"

\* send_message_stream, up to the StreamingResponse (lines 271-317)
StreamRequest(p, provider, cmd) ==
    /\ IF p \notin DOMAIN projects
       THEN /\ reqs' = Append(reqs, Request("stream", 0, p, 404, "done"))
            /\ UNCHANGED <<sessions, project_sessions, nextSid, managers>>
       ELSE IF provider \notin {"gemini", "echo_test"}
       THEN /\ reqs' = Append(reqs, Request("stream", 0, p, 400, "done"))
            /\ UNCHANGED <<sessions, project_sessions, nextSid, managers>>
       ELSE /\ nextSid <= MaxSessions
            /\ managers' = Put(managers, nextSid, ChatManager(provider, p))
            /\ SetRegistry(create_session(Registry, nextSid, p, nextSid))
            /\ nextSid' = nextSid + 1
            /\ reqs' = Append(reqs,
                  [Request("stream", nextSid, p, 200, "start") EXCEPT
                      !.user_message = cmd,
                      !.conversation_history =
                          ConversationHistory(get_recent_history(chat_history, p, HistoryLimit))])
    /\ UNCHANGED <<now, lastCall, envVars, dbVars, settingsVars>>

\* start_conversation up to its first yield (lines 85-97)
StartConversation(r) ==
    LET req == reqs[r] IN
    /\ req.pc = "start"
    /\ 0 < max_tool_iterations
    /\ managers' = [managers EXCEPT ![req.session_id].messages =
                        req.conversation_history \o <<UserMessage(req.user_message)>>]
    /\ reqs' = [reqs EXCEPT ![r] =
                  [Emit(req, ConversationStep("generating", NoContent, <<>>, <<>>, ""))
                      EXCEPT !.pc = "generating", !.iteration = 1]]
    /\ UNCHANGED <<registryVars, envVars, dbVars, settingsVars>>

ErrorStep_without_error(error) == ConversationStep("completed", NoContent, <<>>, <<>>, "")

ErrorStep(error) == ConversationStep("completed", NoContent, <<>>, <<>>, error)

\* start_conversation, one generation round (lines 99-148)
StartGenerate(r, offsets) ==
    LET req == WithContext(r) IN
    /\ reqs[r].kind = "stream"
    /\ reqs[r].pc = "generating"
    /\ \E resp \in Generate(Manager(r), offsets) :
          IF resp.raised
          THEN /\ reqs' = [reqs EXCEPT ![r] =
                     [Emit(req, ErrorStep("AI generation error: "))
                         EXCEPT !.pc = AfterError, !.raised = TRUE, !.generations = @ + 1]]
               /\ UNCHANGED managers
          ELSE /\ managers' = [managers EXCEPT ![req.session_id].messages =
                                  Append(@, AssistantMessage(resp))]
               /\ IF resp.tool_calls = <<>>
                  THEN reqs' = [reqs EXCEPT ![r] =
                          [Emit(req, ConversationStep("completed", resp.content, <<>>, <<>>, ""))
                              EXCEPT !.pc = "completed", !.generations = @ + 1]]
                  ELSE reqs' = [reqs EXCEPT ![r] =
                          [Emit(req, ConversationStep("tool_approval", resp.content,
                                                      resp.tool_calls, <<>>, ""))
                              EXCEPT !.pc = AfterToolApproval, !.tool_rounds = @ + 1,
                                     !.generations = @ + 1]]
    /\ UNCHANGED <<registryVars, envVars, dbVars, settingsVars>>

\* after a COMPLETED step without error has been sent: the route removes the
\* session, then the generator saves the conversation and returns
\* (chat.py lines 355-357 and 429-431, chat_manager.py lines 126-127, 327-328, 337-338)
Finish(r) ==
    LET req == reqs[r] IN
    /\ req.pc = "completed"
    /\ SetRegistry(cleanup_session(Registry, req.session_id))
    /\ chat_history' = _save_final_conversation(chat_history, nextRowId, Manager(r))
    /\ nextRowId' = IF chat_history' = chat_history THEN nextRowId ELSE nextRowId + 1
    /\ reqs' = [reqs EXCEPT ![r].pc = AfterSave]
    /\ UNCHANGED <<nextSid, now, lastCall, managers, envVars, projects, nextProjectId,
                   settingsVars>>

\* after a COMPLETED step with an error has been sent: the route removes the
\* session and the generator returns
Fail(r) ==
    LET req == reqs[r] IN
    /\ req.pc = "failed"
    /\ SetRegistry(cleanup_session(Registry, req.session_id))
    /\ reqs' = [reqs EXCEPT ![r].pc = "done"]
    /\ UNCHANGED <<nextSid, now, lastCall, managers, envVars, dbVars, settingsVars>>

\* handle_tool_approval, up to the StreamingResponse (lines 378-395)
ApprovalRequest(session_id, p, approved_tools, denied_tools) ==
    /\ SetRegistry(get_session(Registry, session_id))
    /\ IF get_session_result(Registry, session_id) = 0
       THEN reqs' = Append(reqs, Request("approval", session_id, p, 404, "done"))
       ELSE IF sessions[session_id].project_id # p
       THEN reqs' = Append(reqs, Request("approval", session_id, p, 400, "done"))
       ELSE reqs' = Append(reqs,
               [Request("approval", sessions[session_id].chat_manager, p, 200, "resume")
                   EXCEPT !.approved_tools = approved_tools,
                          !.denied_tools = denied_tools])
    /\ UNCHANGED <<nextSid, now, lastCall, managers, envVars, dbVars, settingsVars>>

\* continue_conversation_after_tools up to its first yield (lines 168-185)
ResumeAfterTools(r) ==
    LET req == reqs[r]
        messages == Manager(r).messages
    IN
    /\ req.pc = "resume"
    /\ IF messages = <<>>
       THEN reqs' = [reqs EXCEPT ![r] =
               [Emit(req, ErrorStep("No messages in conversation history"))
                   EXCEPT !.pc = "failed"]]
       ELSE IF messages[Len(messages)].tool_calls = <<>>
       THEN reqs' = [reqs EXCEPT ![r] =
               [Emit(req, ErrorStep("No tool calls found to process"))
                   EXCEPT !.pc = "failed"]]
       ELSE reqs' = [reqs EXCEPT ![r] =
               [Emit(req, ConversationStep("tool_executing", NoContent, <<>>, <<>>, ""))
                   EXCEPT !.pc = "executing",
                          !.pending = messages[Len(messages)].tool_calls]]
    /\ UNCHANGED <<registryVars, managers, envVars, dbVars, settingsVars>>

\* the pending calls the loop of lines 189-225 still has to execute
ToExecute(req) ==
    {i \in req.index..Len(req.pending) :
        ToolOutcome(req.pending[i], req.approved_tools, req.denied_tools) = "executed"}

\* tool_manager.execute_tool for the next approved call (lines 194-216)
ExecuteTool(r) ==
    LET req == reqs[r] IN
    /\ req.pc = "executing"
    /\ ToExecute(req) # {}
    /\ LET i == MinOf(ToExecute(req))
       IN reqs' = [reqs EXCEPT ![r].executed = Append(@, req.pending[i]),
                               ![r].index = i + 1]
    /\ UNCHANGED <<registryVars, managers, envVars, dbVars, settingsVars>>

\* the tool messages are appended and GENERATING is yielded (lines 227-245)
FinishTools(r) ==
    LET req == reqs[r]
        tool_results == ToolResults(req.pending, req.approved_tools, req.denied_tools)
    IN
    /\ req.pc = "executing"
    /\ ToExecute(req) = {}
    /\ managers' = [managers EXCEPT ![req.session_id].messages =
                        @ \o ToolMessages(tool_results)]
    /\ reqs' = [reqs EXCEPT ![r] =
                  [Emit(req, ConversationStep("generating", NoContent, <<>>, tool_results, ""))
                      EXCEPT !.pc = "generating", !.iteration = 0]]
    /\ UNCHANGED <<registryVars, envVars, dbVars, settingsVars>>

\* continue_conversation_after_tools, first generation of a round (lines 247-281, 329-345)
ContinueGenerate(r, offsets) ==
    LET req == WithContext(r) IN
    /\ reqs[r].kind = "approval"
    /\ reqs[r].pc = "generating"
    /\ req.iteration < max_tool_iterations
    /\ \E resp \in Generate(Manager(r), offsets) :
          IF resp.raised
          THEN /\ reqs' = [reqs EXCEPT ![r] =
                     [Emit(req, ErrorStep("AI generation error: "))
                         EXCEPT !.pc = AfterError, !.raised = TRUE, !.generations = @ + 1,
                                !.iteration = @ + 1]]
               /\ UNCHANGED managers
          ELSE /\ managers' = [managers EXCEPT ![req.session_id].messages =
                                  Append(@, AssistantMessage(resp))]
               /\ IF resp.tool_calls # <<>>
                  THEN reqs' = [reqs EXCEPT ![r] =
                          [Emit(req, ConversationStep("tool_approval", resp.content,
                                                      resp.tool_calls, <<>>, ""))
                              EXCEPT !.pc = AfterToolApproval, !.tool_rounds = @ + 1,
                                     !.generations = @ + 1,
                                     !.iteration = @ + 1]]
                  ELSE IF Manager(r).provider = "echo_test"
                  THEN reqs' = [reqs EXCEPT ![r] =
                          [Emit(req, ConversationStep("generating", resp.content, <<>>, <<>>, ""))
                              EXCEPT !.pc = "generating_again", !.generations = @ + 1,
                                     !.iteration = @ + 1,
                                     !.first_content = resp.content]]
                  ELSE reqs' = [reqs EXCEPT ![r] =
                          [Emit(req, ConversationStep("completed", resp.content, <<>>, <<>>, ""))
                              EXCEPT !.pc = "completed", !.generations = @ + 1,
                                     !.iteration = @ + 1]]
    /\ UNCHANGED <<registryVars, envVars, dbVars, settingsVars>>

Truthy(content) == ~(content.kind = "text" /\ content.n = 0)

\* the extra generation made for the echo_test provider (lines 283-328)
GenerateAgain(r, offsets) ==
    LET req == WithContext(r) IN
    /\ reqs[r].pc = "generating_again"
    /\ \E next_response \in Generate(Manager(r), offsets) :
          IF next_response.raised
          THEN /\ reqs' = [reqs EXCEPT ![r] =
                     [Emit(req, ErrorStep("AI generation error: "))
                         EXCEPT !.pc = AfterError, !.raised = TRUE, !.generations = @ + 1]]
               /\ UNCHANGED managers
          ELSE IF next_response.tool_calls # <<>>
          THEN /\ managers' = [managers EXCEPT ![req.session_id].messages =
                                  Append(@, AssistantMessage(next_response))]
               /\ reqs' = [reqs EXCEPT ![r] =
                     [Emit(req, ConversationStep("tool_approval", next_response.content,
                                                 next_response.tool_calls, <<>>, ""))
                         EXCEPT !.pc = AfterToolApproval, !.tool_rounds = @ + 1,
                                     !.generations = @ + 1]]
          ELSE IF Truthy(next_response.content) /\ next_response.content # req.first_content
          THEN /\ managers' = [managers EXCEPT ![req.session_id].messages =
                                  Append(@, AssistantMessage(next_response))]
               /\ reqs' = [reqs EXCEPT ![r] =
                     [Emit(req, ConversationStep("completed", next_response.content,
                                                 <<>>, <<>>, ""))
                         EXCEPT !.pc = "completed", !.generations = @ + 1]]
          ELSE /\ reqs' = [reqs EXCEPT ![r] =
                     [Emit(req, ConversationStep("completed", req.first_content,
                                                 <<>>, <<>>, ""))
                         EXCEPT !.pc = "completed", !.generations = @ + 1]]
               /\ UNCHANGED managers
    /\ UNCHANGED <<registryVars, envVars, dbVars, settingsVars>>

\* -------------------------------------------------- routes/projects.py
\* The last request served and its answer: the operation, the request's
\* fields (0 or "" when it has none), the status and the returned data.
Response(op, id, name, path, data, status, body) ==
    [op |-> op, id |-> id, name |-> name, path |-> path, data |-> data,
     status |-> status, body |-> body]

NoResponse == Response("none", 0, "", "", "", 0, "")

None == "None"   \* a field the update request leaves out

ProjectRow(name, path, description) ==
    [name |-> name, path |-> path, description |-> description]

\* SELECT id FROM projects WHERE name = ?
name_exists(rows, name) == \E id \in DOMAIN rows : rows[id].name = name

name_conflicts_ignored(rows, name, project_id) == FALSE

\* SELECT id FROM projects WHERE name = ? AND id != ?
name_conflicts(rows, name, project_id) ==
    \E id \in DOMAIN rows : rows[id].name = name /\ id # project_id

delete_chat_history_keep(rows, project_id) == rows

\* DELETE FROM chat_history WHERE project_id = ?
delete_chat_history(rows, project_id) ==
    SelectSeq(rows, LAMBDA row : row.project_id # project_id)

create_project(name, path, description) ==
    /\ IF name_exists(projects, name)
       THEN /\ response' = Response("create_project", 0, name, path, description, 400,
                                    "Project with this name already exists")
            /\ UNCHANGED <<projects, nextProjectId>>
       ELSE /\ projects' = Put(projects, nextProjectId, ProjectRow(name, path, description))
            /\ nextProjectId' = nextProjectId + 1
            /\ response' = Response("create_project", nextProjectId, name, path,
                                    description, 200, name)
    /\ UNCHANGED <<registryVars, chatVars, chat_history, nextRowId, global_settings>>

update_project(project_id, name, path, description) ==
    /\ IF project_id \notin DOMAIN projects
       THEN /\ response' = Response("update_project", project_id, name, path, description,
                                    404, "Project not found")
            /\ UNCHANGED projects
       ELSE IF name # None /\ name_conflicts(projects, name, project_id)
       THEN /\ response' = Response("update_project", project_id, name, path, description,
                                    400, "Project with this name already exists")
            /\ UNCHANGED projects
       ELSE /\ projects' = [projects EXCEPT ![project_id] =
                  ProjectRow(IF name # None THEN name ELSE @.name,
                             IF path # None THEN path ELSE @.path,
                             IF description # None THEN description ELSE @.description)]
            /\ response' = Response("update_project", project_id, name, path, description,
                                    200, projects'[project_id].name)
    /\ UNCHANGED <<registryVars, chatVars, nextProjectId, chat_history, nextRowId,
                   global_settings>>

delete_project(project_id) ==
    /\ IF project_id \notin DOMAIN projects
       THEN /\ response' = Response("delete_project", project_id, "", "", "", 404,
                                    "Project not found")
            /\ UNCHANGED <<projects, chat_history>>
       ELSE /\ projects' = Remove(projects, project_id)
            /\ chat_history' = delete_chat_history(chat_history, project_id)
            /\ response' = Response("delete_project", project_id, "", "", "", 200,
                                    "Project deleted successfully")
    /\ UNCHANGED <<registryVars, chatVars, nextProjectId, nextRowId, global_settings>>

\* ChatMemory.save_message called for a project (memory/chat_memory.py)
SaveMessage(project_id) ==
    /\ chat_history' = save_message(chat_history, nextRowId, project_id, <<>>, 2)
    /\ nextRowId' = nextRowId + 1
    /\ response' = Response("save_message", project_id, "", "", "", 200, "")
    /\ UNCHANGED <<registryVars, chatVars, projects, nextProjectId, global_settings>>

\* -------------------------------------------------- routes/settings.py
DEFAULT_GLOBAL_SETTINGS == "DEFAULT_GLOBAL_SETTINGS"

\* the config_data column holds the JSON text of the structure
json_dumps(data) == [json |-> data]
json_loads(text) == text.json

\* SELECT config_data FROM global_settings WHERE config_name = "global"
stored_global_settings(rows) ==
    IF "global" \in DOMAIN rows THEN json_loads(rows["global"]) ELSE DEFAULT_GLOBAL_SETTINGS

get_global_settings ==
    /\ response' = Response("get_global_settings", 0, "", "", "", 200,
                            stored_global_settings(global_settings))
    /\ UNCHANGED <<registryVars, chatVars, dbVars, global_settings>>

update_global_settings(config_name, config_data) ==
    /\ global_settings' = Put(Remove(global_settings, config_name), config_name,
                              json_dumps(config_data))
    /\ response' = Response("update_global_settings", 0, config_name, "", config_data, 200,
                            "Global settings updated successfully")
    /\ UNCHANGED <<registryVars, chatVars, dbVars>>

get_default_global_settings ==
    /\ response' = Response("get_default_global_settings", 0, "", "", "", 200,
                            DEFAULT_GLOBAL_SETTINGS)
    /\ UNCHANGED <<registryVars, chatVars, dbVars, global_settings>>

reset_global_settings ==
    /\ global_settings' = Put(Remove(global_settings, "global"), "global",
                              json_dumps(DEFAULT_GLOBAL_SETTINGS))
    /\ response' = Response("reset_global_settings", 0, "", "", "", 200,
                            "Global settings reset to defaults")
    /\ UNCHANGED <<registryVars, chatVars, dbVars>>

\* ------------------------------------------------------------- states
InitRegistry ==
    /\ sessions = <<>>
    /\ project_sessions = <<>>
    /\ nextSid = 1
    /\ now = 0
    /\ lastCall = [op |-> "none", arg |-> 0, result |-> 0]

InitChatManagers ==
    /\ managers = <<>>
    /\ reqs = <<>>

\* no tool is registered and no tool has been called
IdleTools ==
    /\ tools = {}
    /\ disk = <<>>
    /\ tool_result = <<>>
    /\ effects = {}

\* the command-line client has no project and its picker was just constructed
IdleCli ==
    /\ config_file = <<>>
    /\ ui_projects = <<>>
    /\ selected_index = 0
    /\ scroll_offset = 0
    /\ terminal_height = 24
    /\ screen = {}
    /\ cli_call = [op |-> "none", name |-> <<>>, path |-> <<>>, description |-> <<>>,
                   outcome |-> ""]
    /\ stdin = <<>>
    /\ terminal = [mode |-> "cooked", cursor |-> "shown", old_settings |-> "unset"]
    /\ picker_run = [pc |-> "created", ended_by |-> "", returned |-> "", key |-> "",
                     read_in |-> "", dialogs |-> 0]

InitDatabase ==
    /\ projects = <<>>
    /\ nextProjectId = 1
    /\ chat_history = <<>>
    /\ nextRowId = 1
    /\ global_settings = <<>>
    /\ response = NoResponse

\* the service after start-up: nothing stored, no session, no tool registered
Init ==
    /\ InitRegistry
    /\ InitChatManagers
    /\ ntools = 0
    /\ IdleTools
    /\ IdleCli
    /\ InitDatabase

NextSessions ==
    \/ \E p \in ProjectIds : CreateSession(p)
    \/ \E s \in 1..MaxSessions : GetSession(s)
    \/ \E p \in ProjectIds : GetProjectSession(p)
    \/ \E s \in 1..MaxSessions : CleanupSession(s)
    \/ \E p \in ProjectIds : CleanupProjectSession(p)
    \/ CleanupExpiredSessions
    \/ Tick

SpecSessions == Init /\ [][NextSessions]_vars

\* --------------------------------------------------- the chat routes
\* One project is stored and a tool is registered; stream and approval
\* requests arrive in any order and their step generators interleave.
ChatToolCounts == {1}   \* tools registered
MaxInFlight == 2   \* step generators running at once
ChatCommands == {<<>>, <<1, 1>>}
ChatProviders == {"gemini", "echo_test", "unsupported"}

InitChat ==
    /\ InitRegistry
    /\ InitChatManagers
    /\ ntools \in ChatToolCounts
    /\ IdleTools
    /\ IdleCli
    /\ projects = (1 :> ProjectRow("a", "/p", ""))
    /\ nextProjectId = 2
    /\ chat_history = <<>>
    /\ nextRowId = 1
    /\ global_settings = <<>>
    /\ response = NoResponse

\* the tool call ids a client can have seen
KnownIds ==
    UNION {{m.tool_calls[i].id : i \in 1..Len(m.tool_calls)} :
           m \in UNION {{managers[s].messages[k] : k \in 1..Len(managers[s].messages)} :
                        s \in DOMAIN managers}}

\* the approved and the denied list of an approval request
Decisions(ids) ==
    {<<ids, {}>>, <<{}, ids>>, <<{}, {}>>, <<ids, ids>>}
    \cup {<<{x}, ids \ {x}>> : x \in ids}
    \cup {<<{x}, {}>> : x \in ids}

InFlight == {r \in 1..Len(reqs) : reqs[r].pc # "done"}

NextChat ==
    \/ \E p \in ProjectIds, provider \in ChatProviders, cmd \in ChatCommands :
          /\ Len(reqs) < MaxRequests
          /\ Cardinality(InFlight) < MaxInFlight
          /\ StreamRequest(p, provider, cmd)
    \/ \E r \in 1..Len(reqs) : StartConversation(r)
    \/ \E r \in 1..Len(reqs) : StartGenerate(r, {0})
    \/ \E s \in 1..nextSid, p \in ProjectIds, d \in Decisions(KnownIds) :
          /\ Len(reqs) < MaxRequests
          /\ Cardinality(InFlight) < MaxInFlight
          /\ ApprovalRequest(s, p, d[1], d[2])
    \/ \E r \in 1..Len(reqs) : ResumeAfterTools(r)
    \/ \E r \in 1..Len(reqs) : ExecuteTool(r)
    \/ \E r \in 1..Len(reqs) : FinishTools(r)
    \/ \E r \in 1..Len(reqs) : ContinueGenerate(r, {0})
    \/ \E r \in 1..Len(reqs) : GenerateAgain(r, {0})
    \/ \E r \in 1..Len(reqs) : Finish(r)
    \/ \E r \in 1..Len(reqs) : Fail(r)

SpecChat == InitChat /\ [][NextChat]_vars

\* ------------------------------------------------------------------ C2
Last(seq) == seq[Len(seq)]
Ids(calls) == {calls[i].id : i \in 1..Len(calls)}

\* C2: a tool is executed only by a tool-approval continuation, and only a
\* pending call whose id is in that request's approved list; a stream
\* request executes nothing and ends its first round at TOOL_APPROVAL; a
\* pending call in neither list is not executed and gets no tool message.
C2_OnlyApprovedToolsRun ==
    [][\A r \in 1..Len(reqs) :
          /\ reqs'[r].executed # reqs[r].executed =>
                /\ reqs[r].kind = "approval"
                /\ reqs[r].pc = "executing"
                /\ Len(reqs'[r].executed) = Len(reqs[r].executed) + 1
                /\ Last(reqs'[r].executed).id \in reqs[r].approved_tools
                /\ Last(reqs'[r].executed).id \in Ids(reqs[r].pending)
          /\ reqs[r].kind = "stream" =>
                /\ reqs'[r].executed = <<>>
                /\ \A i \in 1..Len(reqs'[r].steps) :
                      reqs'[r].steps[i].state # "tool_executing"
          /\ (reqs[r].pc = "executing" /\ reqs'[r].pc = "generating") =>
                LET decided == {i \in 1..Len(reqs[r].pending) :
                                   reqs[r].pending[i].id \in
                                      reqs[r].approved_tools \cup reqs[r].denied_tools}
                    sid == reqs[r].session_id
                IN /\ Len(managers'[sid].messages) =
                         Len(managers[sid].messages) + Cardinality(decided)
                   /\ Len(Last(reqs'[r].steps).tool_results) = Cardinality(decided)
                   /\ \A i \in 1..Len(reqs[r].pending) :
                         reqs[r].pending[i].id \notin reqs[r].approved_tools =>
                            \A k \in 1..Len(reqs[r].executed) :
                               reqs[r].executed[k].id # reqs[r].pending[i].id
    ]_vars

\* a continuation has executed an approved call and skipped a pending call
\* that was in neither list
C2_Witness ==
    \E r \in 1..Len(reqs) :
        /\ reqs[r].kind = "approval"
        /\ reqs[r].pc = "generating"
        /\ reqs[r].executed # <<>>
        /\ \E i \in 1..Len(reqs[r].pending) :
              reqs[r].pending[i].id \notin reqs[r].approved_tools \cup reqs[r].denied_tools

\* ------------------------------------------------------------------ C3
\* One echo_test conversation on project 1: the stream request with the
\* message "call N tools M times", then approval requests sent one at a
\* time once the previous stream has ended.  The project may already hold
\* the record of an earlier tool conversation.
EchoN == {1, 2, 6}
EchoM == {1, 2, 3, 4}
EchoToolCounts == {1, 2, 6}
EchoRequests == 5
EarlierConversation == save_message(<<>>, 1, 1, <<2, 1>>, 5)

InitEcho ==
    /\ InitRegistry
    /\ InitChatManagers
    /\ ntools \in EchoToolCounts
    /\ IdleTools
    /\ IdleCli
    /\ projects = (1 :> ProjectRow("a", "/p", ""))
    /\ nextProjectId = 2
    /\ chat_history \in {<<>>, EarlierConversation}
    /\ nextRowId = Len(chat_history) + 1
    /\ global_settings = <<>>
    /\ response = NoResponse

EchoDecisions(ids) == {<<ids, {}>>, <<{}, ids>>, <<{}, {}>>}

NextEcho ==
    \/ \E n \in EchoN, m \in EchoM :
          /\ reqs = <<>>
          /\ StreamRequest(1, "echo_test", <<n, m>>)
    \/ \E r \in 1..Len(reqs) : StartConversation(r)
    \/ \E r \in 1..Len(reqs) : StartGenerate(r, {0, 1})
    \/ \E d \in EchoDecisions(KnownIds) :
          /\ reqs # <<>>
          /\ Len(reqs) < EchoRequests
          /\ InFlight = {}
          /\ ApprovalRequest(1, 1, d[1], d[2])
    \/ \E r \in 1..Len(reqs) : ResumeAfterTools(r)
    \/ \E r \in 1..Len(reqs) : ExecuteTool(r)
    \/ \E r \in 1..Len(reqs) : FinishTools(r)
    \/ \E r \in 1..Len(reqs) : ContinueGenerate(r, {0, 1})
    \/ \E r \in 1..Len(reqs) : GenerateAgain(r, {0, 1})
    \/ \E r \in 1..Len(reqs) : Finish(r)

SpecEcho == InitEcho /\ [][NextEcho]_vars

ToolApprovals(steps) == {i \in 1..Len(steps) : steps[i].state = "tool_approval"}

\* C3: an echo_test conversation started by "call N tools M times" with at
\* least one tool registered, every TOOL_APPROVAL answered by an approval
\* request, sends min(M, 3) TOOL_APPROVAL steps, one per stream, each with
\* min(N, tools, 5) calls, and the stream after the last of them ends at
\* COMPLETED without an error; no stream reports an error.
C3_EchoRounds ==
    reqs # <<>> =>
        LET N == reqs[1].user_message[1]
            M == reqs[1].user_message[2]
            rounds == Min(M, 3)
            batch == Min(Min(N, ntools), 5)
        IN \A r \in 1..Len(reqs) :
              LET steps == reqs[r].steps IN
              /\ \A i \in 1..Len(steps) : steps[i].error = ""
              /\ \A i \in ToolApprovals(steps) :
                    /\ i = Len(steps)
                    /\ Len(steps[i].tool_calls) = batch
              /\ r > rounds + 1 => reqs[r].status = 404
              /\ r <= rounds + 1 => reqs[r].status = 200
              /\ (reqs[r].pc = "done" /\ r <= rounds)
                    => Last(steps).state = "tool_approval"
              /\ (reqs[r].pc = "done" /\ r = rounds + 1)
                    => /\ Last(steps).state = "completed"
                       /\ ToolApprovals(steps) = {}

\* "call 6 tools 4 times" with six tools: three batches of five calls were
\* approved and the third continuation has ended at COMPLETED
C3_Witness ==
    /\ Len(reqs) >= 4
    /\ reqs[1].user_message = <<6, 4>>
    /\ ntools = 6
    /\ reqs[4].pc = "done"
    /\ Last(reqs[4].steps).state = "completed"
    /\ \A r \in 1..3 : Len(Last(reqs[r].steps).tool_calls) = 5
    /\ \A r \in 2..4 : Len(reqs[r].executed) = 5

\* ------------------------------------------------------------------ C4
Resolves(session_id) ==
    /\ session_id \in DOMAIN sessions
    /\ sessions[session_id].chat_manager = session_id

\* a later session has been created for the project of session_id
Superseded(session_id) ==
    \E s \in DOMAIN managers :
        /\ s > session_id
        /\ managers[s].project_id = managers[session_id].project_id

\* C4: under any interleaving, a stream that ends at COMPLETED leaves its
\* session id unresolvable; a TOOL_APPROVAL step carries a session id that
\* resolves to the same chat manager when the step is sent, and the id keeps
\* resolving until a continuation of it completes or a new session is
\* created for the same project.
C4_SessionMatchesFinalStep ==
    [][\A r \in 1..Len(reqs) :
          LET sid == reqs[r].session_id IN
          /\ (/\ Len(reqs'[r].steps) > Len(reqs[r].steps)
              /\ Last(reqs'[r].steps).state = "tool_approval")
                => Resolves(sid)' \/ Superseded(sid)'
          /\ (/\ reqs[r].pc # "done"
              /\ reqs'[r].pc = "done"
              /\ reqs'[r].steps # <<>>
              /\ Last(reqs'[r].steps).state = "completed")
                => sid \notin DOMAIN sessions'
          /\ (/\ reqs[r].pc = "done"
              /\ reqs[r].steps # <<>>
              /\ Last(reqs[r].steps).state = "tool_approval"
              /\ Resolves(sid)
              /\ ~Resolves(sid)')
                => \/ nextSid' = nextSid + 1
                   \/ \E q \in 1..Len(reqs) :
                         /\ reqs[q].kind = "approval"
                         /\ reqs[q].session_id = sid
                         /\ reqs[q].pc # "done"
                         /\ reqs'[q].pc = "done"
    ]_vars

\* ------------------------------------------------------------------ C5
\* Gemini requests served one after the other while the clock advances; no sweep of
\* expired sessions runs, since nothing in the service calls
\* cleanup_expired_sessions.
NextExpiry ==
    \/ \E p \in ProjectIds :
          /\ Len(reqs) < MaxRequests
          /\ InFlight = {}
          /\ StreamRequest(p, "gemini", <<>>)
    \/ \E r \in 1..Len(reqs) : StartConversation(r)
    \/ \E r \in 1..Len(reqs) : StartGenerate(r, {0})
    \/ \E s \in 1..nextSid, p \in ProjectIds, d \in Decisions(KnownIds) :
          /\ Len(reqs) < MaxRequests
          /\ InFlight = {}
          /\ ApprovalRequest(s, p, d[1], d[2])
    \/ \E r \in 1..Len(reqs) : ResumeAfterTools(r)
    \/ \E r \in 1..Len(reqs) : ExecuteTool(r)
    \/ \E r \in 1..Len(reqs) : FinishTools(r)
    \/ \E r \in 1..Len(reqs) : ContinueGenerate(r, {0})
    \/ \E r \in 1..Len(reqs) : Finish(r)
    \/ \E r \in 1..Len(reqs) : Fail(r)
    \/ InFlight = {} /\ Tick

SpecExpiry == InitChat /\ [][NextExpiry]_vars

\* C5: an approval request whose session id is unknown, torn down, evicted
\* or idle for more than 3600 seconds is answered 404, runs no tool and
\* changes no transcript.
C5_DeadSessionIs404 ==
    [][/\ (/\ Len(reqs') = Len(reqs) + 1
           /\ Last(reqs').kind = "approval"
           /\ \/ Last(reqs').session_id \notin DOMAIN sessions
              \/ is_expired(sessions[Last(reqs').session_id], SessionTimeout))
             => /\ Last(reqs').status = 404
                /\ Last(reqs').pc = "done"
                /\ managers' = managers
       /\ \A r \in 1..Len(reqs) :
             reqs[r].status = 404 => /\ reqs'[r] = reqs[r]
                                     /\ reqs[r].executed = <<>>
                                     /\ reqs[r].steps = <<>>
    ]_vars

\* ------------------------------------------------------------------ C6
\* C6: one start_conversation or continue_conversation_after_tools
\* invocation makes at most max_tool_iterations (10) provider generations;
\* a generation that asks for tools ends the invocation, which returns that
\* round as an ordinary TOOL_APPROVAL step, not as an error.
C6_AtMostTenRounds ==
    \A r \in 1..Len(reqs) :
        /\ reqs[r].generations <= 10
        /\ reqs[r].tool_rounds >= 1
              => /\ reqs[r].pc = "done"
                 /\ reqs[r].tool_rounds = 1
                 /\ Last(reqs[r].steps).state = "tool_approval"
                 /\ Last(reqs[r].steps).error = ""
                 /\ Last(reqs[r].steps).tool_calls # <<>>
                 /\ ~reqs[r].raised

\* a continuation whose every generation asked for tools has returned
C6_Witness ==
    \E r \in 1..Len(reqs) :
        /\ reqs[r].kind = "approval"
        /\ reqs[r].pc = "done"
        /\ reqs[r].generations >= 1
        /\ reqs[r].tool_rounds = reqs[r].generations

\* ------------------------------------------------------------------ C7
Transcripts == [s \in DOMAIN managers |-> managers[s].messages]

\* C7: when the provider raises during a generation, the invocation sends one
\* COMPLETED step whose error starts with "AI generation error: " and then
\* ends; it writes no chat-history record and leaves every transcript as it
\* was.
C7_GenerationErrorEndsInvocation ==
    [][\A r \in 1..Len(reqs) :
          /\ (~reqs[r].raised /\ reqs'[r].raised)
                => /\ reqs'[r].steps =
                         Append(reqs[r].steps, ErrorStep("AI generation error: "))
                   /\ Transcripts' = Transcripts
                   /\ chat_history' = chat_history
          /\ reqs[r].raised
                => /\ reqs'[r].steps = reqs[r].steps
                   /\ reqs'[r].generations = reqs[r].generations
                   /\ reqs'[r].pc \in {"failed", "done"}
                   /\ reqs'[r].pc # reqs[r].pc
                         => /\ chat_history' = chat_history
                            /\ Transcripts' = Transcripts
    ]_vars

\* a continuation whose transcript already held tool messages has seen the
\* provider raise and has returned
C7_Witness ==
    \E r \in 1..Len(reqs) :
        /\ reqs[r].raised
        /\ reqs[r].kind = "approval"
        /\ reqs[r].pc = "done"
        /\ Len(Manager(r).messages) >= 3

\* ------------------------------------------------- the project routes
MaxProjects == 2   \* projects created in one run
MaxRows == 2       \* chat-history rows saved in one run
Names == {"a", "b"}
Paths == {"/p", "/q"}
Descriptions == {""}

NextProjects ==
    \/ \E name \in Names, path \in Paths, description \in Descriptions :
          /\ nextProjectId <= MaxProjects
          /\ create_project(name, path, description)
    \/ \E project_id \in 1..MaxProjects, name \in Names \cup {None},
          path \in Paths \cup {None}, description \in Descriptions \cup {None} :
          update_project(project_id, name, path, description)
    \/ \E project_id \in 1..MaxProjects : delete_project(project_id)
    \/ \E project_id \in 1..MaxProjects :
          /\ nextRowId <= MaxRows
          /\ SaveMessage(project_id)

SpecProjects == Init /\ [][NextProjects]_vars

\* ------------------------------------------------------------------ C8
\* C8: no two stored projects share a name; a create with a stored name, or
\* a rename to another project's name, answers 400 and changes nothing;
\* a create with a new name succeeds whatever its path, and an update that
\* names the project's own name succeeds.
C8_UniqueProjectNames ==
    /\ [](\A i, j \in DOMAIN projects : projects[i].name = projects[j].name => i = j)
    /\ [][/\ response'.op = "create_project" =>
               IF name_exists(projects, response'.name)
               THEN response'.status = 400 /\ projects' = projects
               ELSE /\ response'.status = 200
                    /\ response'.id \notin DOMAIN projects
                    /\ projects' = Put(projects, response'.id,
                                       ProjectRow(response'.name, response'.path,
                                                  response'.data))
          /\ (response'.op = "update_project" /\ response'.id \in DOMAIN projects) =>
               IF /\ response'.name # None
                  /\ \E other \in DOMAIN projects \ {response'.id} :
                        projects[other].name = response'.name
               THEN response'.status = 400 /\ projects' = projects
               ELSE /\ response'.status = 200
                    /\ DOMAIN projects' = DOMAIN projects
                    /\ response'.name = projects[response'.id].name =>
                          projects'[response'.id].name = response'.name
          /\ response'.status = 400 => dbVars' = dbVars
      ]_vars

\* two stored projects share a path and a rename of one to the other's name
\* has just been refused
C8_Witness ==
    /\ response.op = "update_project"
    /\ response.status = 400
    /\ \E i, j \in DOMAIN projects : i # j /\ projects[i].path = projects[j].path

\* ------------------------------------------------------------------ C9
\* C9: deleting a stored project removes its row and every chat-history row
\* of that project and nothing else; deleting an unknown id answers 404 and
\* changes nothing.
C9_DeleteRemovesProjectAndHistory ==
    [][response'.op = "delete_project" =>
          IF response'.id \in DOMAIN projects
          THEN /\ response'.status = 200
               /\ projects' = Remove(projects, response'.id)
               /\ chat_history' = SelectSeq(chat_history,
                                     LAMBDA row : row.project_id # response'.id)
               /\ \A i \in 1..Len(chat_history') :
                     chat_history'[i].project_id # response'.id
          ELSE /\ response'.status = 404
               /\ dbVars' = dbVars
    ]_vars

\* a project with chat history has been deleted while another project and
\* its chat history remain
C9_Witness ==
    /\ response.op = "delete_project"
    /\ response.status = 200
    /\ projects # <<>>
    /\ chat_history # <<>>
    /\ Len(chat_history) < nextRowId - 1

\* ------------------------------------------------ the settings routes
ConfigNames == {"global", "custom", "backup"}
ConfigData == {"d1", "d2", "d3", DEFAULT_GLOBAL_SETTINGS}

NextSettings ==
    \/ get_global_settings
    \/ \E config_name \in ConfigNames, config_data \in ConfigData :
          update_global_settings(config_name, config_data)
    \/ get_default_global_settings
    \/ reset_global_settings

SpecSettings == Init /\ [][NextSettings]_vars

\* ----------------------------------------------------------------- C10
\* C10: a read of the global settings with nothing stored returns the
\* default structure, and a read that follows a successful global update
\* returns the value that update stored.
C10_ReadReturnsLastStored ==
    [][response'.op = "get_global_settings" =>
          /\ global_settings = <<>> => response'.body = DEFAULT_GLOBAL_SETTINGS
          /\ (response.op = "update_global_settings" /\ response.status = 200)
                => response'.body = response.data
    ]_vars

\* ------------------------------------------------------------------ C1
LiveSessionsOf(p) == {s \in DOMAIN sessions : sessions[s].project_id = p}

\* C1: after any sequence of registry calls each project id has at most one
\* live session; a create_session for a project evicts the session that
\* project had, and a session id that has been handed out and no longer
\* resolves never resolves again.
C1_OneSessionPerProject ==
    /\ [](\A p \in ProjectIds : Cardinality(LiveSessionsOf(p)) <= 1)
    /\ [][ /\ (lastCall'.op = "create_session" /\ nextSid' = nextSid + 1) =>
                \A s \in LiveSessionsOf(lastCall'.arg) : s \notin DOMAIN sessions'
           /\ \A s \in 1..(nextSid - 1) :
                s \notin DOMAIN sessions => s \notin DOMAIN sessions' ]_vars

\* a second session has been created for a project whose first session is gone
C1_Witness ==
    /\ lastCall.op = "create_session"
    /\ \E s \in 1..(nextSid - 1) :
          /\ s \notin DOMAIN sessions
          /\ s < lastCall.result
          /\ lastCall.result \in DOMAIN sessions

\* --------------------------------------------------- memory/chat_memory.py
\* SELECT COUNT(*) FROM chat_history WHERE project_id = ?
get_message_count(rows, project_id) == Len(RowsOf(rows, project_id))

clear_project_history_all(rows, project_id) == <<>>

\* DELETE FROM chat_history WHERE project_id = ?
clear_project_history(rows, project_id) ==
    SelectSeq(rows, LAMBDA row : row.project_id # project_id)

\* DELETE FROM chat_history WHERE id = ?
delete_message(rows, message_id) ==
    SelectSeq(rows, LAMBDA row : row.id # message_id)

\* the calls answer through response: id is the project (or message) id and
\* status the returned number
ClearProjectHistory(project_id) ==
    /\ chat_history' = clear_project_history(chat_history, project_id)
    /\ response' = Response("clear_project_history", project_id, "", "", "",
                            Len(chat_history) - Len(chat_history'), "")
    /\ UNCHANGED <<registryVars, chatVars, projects, nextProjectId, nextRowId,
                   global_settings>>

GetMessageCount(project_id) ==
    /\ response' = Response("get_message_count", project_id, "", "", "",
                            get_message_count(chat_history, project_id), "")
    /\ UNCHANGED <<registryVars, chatVars, dbVars, global_settings>>

GetRecentHistory(project_id, limit) ==
    /\ response' = Response("get_recent_history", project_id, "", "", "",
                            Len(get_recent_history(chat_history, project_id, limit)), "")
    /\ UNCHANGED <<registryVars, chatVars, dbVars, global_settings>>

DeleteMessage(message_id) ==
    /\ chat_history' = delete_message(chat_history, message_id)
    /\ response' = Response("delete_message", message_id, "", "", "",
                            IF chat_history' # chat_history THEN 1 ELSE 0, "")
    /\ UNCHANGED <<registryVars, chatVars, projects, nextProjectId, nextRowId,
                   global_settings>>

MemoryRows == 4          \* records saved in one run
MemoryLimits == {1, 50}  \* limits asked of get_recent_history

NextMemory ==
    \/ \E project_id \in ProjectIds :
          /\ nextRowId <= MemoryRows
          /\ SaveMessage(project_id)
    \/ \E project_id \in ProjectIds : ClearProjectHistory(project_id)
    \/ \E project_id \in ProjectIds : GetMessageCount(project_id)
    \/ \E project_id \in ProjectIds, limit \in MemoryLimits :
          GetRecentHistory(project_id, limit)
    \/ \E message_id \in 1..MemoryRows : DeleteMessage(message_id)

SpecMemory == Init /\ [][NextMemory]_vars

\* ----------------------------------------------------------------- C11
\* C11: clear_project_history(p) returns the number of records p had just
\* before the call; afterwards p's message count is 0 and its recent
\* history is empty, and the records of every other project are unchanged.
C11_ClearProjectHistory ==
    [][response'.op = "clear_project_history" =>
          LET p == response'.id IN
          /\ response'.status = Len(RowsOf(chat_history, p))
          /\ get_message_count(chat_history', p) = 0
          /\ get_recent_history(chat_history', p, 50) = <<>>
          /\ \A q \in ProjectIds \ {p} :
                RowsOf(chat_history', q) = RowsOf(chat_history, q)
    ]_vars

\* a project with two records was cleared while the other project keeps one
C11_Witness ==
    /\ response.op = "clear_project_history"
    /\ response.status >= 2
    /\ chat_history # <<>>

\* ==================================================================
\* The tools (server/tools): pathlib, the ToolManager, run_command,
\* read_file, write_file and edit_file
\* ==================================================================

\* ------------------------------------------------------------- pathlib
\* A path string is a sequence of tokens, each "/" or a component; a
\* location on the disk is the sequence of names leading to it from the root.
Sep == "/"
Cwd == <<"srv">>    \* working directory of the server process
NoNode == [kind |-> "none", content |-> <<>>, target |-> <<>>]
Dir == [kind |-> "dir", content |-> <<>>, target |-> <<>>]
File(content) == [kind |-> "file", content |-> content, target |-> <<>>]
Link(target) == [kind |-> "link", content |-> <<>>, target |-> target]
Node(dsk, loc) == IF loc \in DOMAIN dsk THEN dsk[loc] ELSE NoNode

\* PurePosixPath parsing drops empty components and "." and keeps ".."
PathParts(s) == SelectSeq(s, LAMBDA t : t # Sep /\ t # ".")
is_absolute(s) == s # <<>> /\ s[1] = Sep
Parent(loc) == IF loc = <<>> THEN <<>> ELSE SubSeq(loc, 1, Len(loc) - 1)

\* Path.resolve(): ".." leaves the directory reached so far, a symlink is
\* replaced by its target, a missing component is kept as it is
RECURSIVE Walk(_, _, _, _)
Walk(dsk, cur, rest, fuel) ==
    IF rest = <<>> THEN cur
    ELSE IF Head(rest) = ".." THEN Walk(dsk, Parent(cur), Tail(rest), fuel)
    ELSE IF Node(dsk, Append(cur, Head(rest))).kind = "link" /\ fuel > 0
    THEN LET t == Node(dsk, Append(cur, Head(rest))).target
         IN  Walk(dsk, IF is_absolute(t) THEN <<>> ELSE cur,
                  PathParts(t) \o Tail(rest), fuel - 1)
    ELSE Walk(dsk, Append(cur, Head(rest)), Tail(rest), fuel)

resolve(dsk, s) ==
    Walk(dsk, IF is_absolute(s) THEN <<>> ELSE Cwd, PathParts(s), Cardinality(DOMAIN dsk))
exists(dsk, s) == Node(dsk, resolve(dsk, s)).kind # "none"
is_dir(dsk, s) == Node(dsk, resolve(dsk, s)).kind = "dir"
is_file(dsk, s) == Node(dsk, resolve(dsk, s)).kind = "file"

\* ---------------------------------------------------------- base_tool
NoMetadata == [lines_written |-> -1, action |-> "", timeout |-> 0, backup_created |-> <<>>]
ToolResult(success, content, error, metadata) ==
    [success |-> success, content |-> content, error |-> error, metadata |-> metadata]
Failure(error) == ToolResult(FALSE, <<>>, error, NoMetadata)

\* the parameter schemas of the four tools: required names, property types
ToolSchemas ==
    [run_command |-> [required |-> {"command"},
                      properties |-> [command |-> "string", timeout |-> "number"]],
     read_file   |-> [required |-> {"file_path"},
                      properties |-> [file_path |-> "string", start_line |-> "number",
                                      end_line |-> "number", show_line_numbers |-> "boolean"]],
     write_file  |-> [required |-> {"file_path", "content"},
                      properties |-> [file_path |-> "string", content |-> "string"]],
     edit_file   |-> [required |-> {"file_path", "old_text", "new_text"},
                      properties |-> [file_path |-> "string", old_text |-> "string",
                                      new_text |-> "string"]]]

\* isinstance(value, ...) on the Python type of a value; bool is an int
isinstance(type, param_type) ==
    CASE param_type = "string" -> type = "str"
      [] param_type = "number" -> type \in {"int", "float", "bool"}
      [] param_type = "boolean" -> type = "bool"
      [] param_type = "array" -> type = "list"
      [] param_type = "object" -> type = "dict"
      [] OTHER -> TRUE

\* kwargs maps the names given to the Python type of the value given
validate_parameters(schema, kwargs) ==
    /\ \A param \in schema.required : param \in DOMAIN kwargs
    /\ \A param \in DOMAIN kwargs :
          param \in DOMAIN schema.properties
             => isinstance(kwargs[param], schema.properties[param])

\* -------------------------------------------------------- tool_manager
_validate_project_path(dsk, project_path) ==
    /\ exists(dsk, project_path)
    /\ is_dir(dsk, project_path)
    /\ is_absolute(project_path)

\* what a tool's execute does: it returns a ToolResult or raises Exception(text)
Returns(result) == [raised |-> FALSE, text |-> "", result |-> result]
Raises(text) == [raised |-> TRUE, text |-> text, result |-> Failure("")]

\* try: result = await tool.execute(...) except Exception as e: ...
TryExecute_propagates(tool_name, outcome) == outcome

TryExecute(tool_name, outcome) ==
    IF outcome.raised
    THEN Returns(Failure("Tool '" \o tool_name \o "' execution failed: " \o outcome.text))
    ELSE outcome

\* execute_tool; "outcome" is what tool.execute does if it is reached
execute_tool(registered, dsk, tool_name, project_path, kwargs, outcome) ==
    IF tool_name \notin registered
    THEN [executed |-> FALSE,
          ret |-> Returns(Failure("Tool '" \o tool_name \o "' not found"))]
    ELSE IF ~validate_parameters(ToolSchemas[tool_name], kwargs)
    THEN [executed |-> FALSE,
          ret |-> Returns(Failure("Invalid parameters for tool '" \o tool_name \o "'"))]
    ELSE IF ~_validate_project_path(dsk, project_path)
    THEN [executed |-> FALSE, ret |-> Returns(Failure("Invalid project path"))]
    ELSE [executed |-> TRUE, ret |-> TryExecute(tool_name, outcome)]

Effect(op, path, command, timeout) ==
    [op |-> op, path |-> path, command |-> command, timeout |-> timeout]

\* the record of a call on the manager or on a tool
Call(op, tool_name, project_path, kwargs, outcome, ret) ==
    [op |-> op, tool_name |-> tool_name, project_path |-> project_path,
     kwargs |-> kwargs, outcome |-> outcome, raised |-> ret.raised,
     text |-> ret.text, result |-> ret.result]

register_tool(tool_name) ==
    /\ tools' = tools \cup {tool_name}
    /\ tool_result' = Call("register_tool", tool_name, <<>>, <<>>, Returns(Failure("")),
                           IF tool_name \in tools
                           THEN Raises("Tool '" \o tool_name \o "' is already registered")
                           ELSE Returns(Failure("")))
    /\ effects' = {}
    /\ UNCHANGED <<registryVars, managers, reqs, ntools, cliVars, disk, dbVars, settingsVars>>

unregister_tool(tool_name) ==
    /\ tools' = tools \ {tool_name}
    /\ tool_result' = Call("unregister_tool", tool_name, <<>>, <<>>, Returns(Failure("")),
                           Returns(ToolResult(tool_name \in tools, <<>>, "", NoMetadata)))
    /\ effects' = {}
    /\ UNCHANGED <<registryVars, managers, reqs, ntools, cliVars, disk, dbVars, settingsVars>>

ManagerExecuteTool(tool_name, project_path, kwargs, outcome) ==
    LET r == execute_tool(tools, disk, tool_name, project_path, kwargs, outcome)
    IN  /\ tool_result' = Call("execute_tool", tool_name, project_path, kwargs, outcome, r.ret)
        /\ effects' = IF r.executed THEN {Effect("execute", project_path, <<>>, 0)} ELSE {}
        /\ UNCHANGED <<registryVars, managers, reqs, ntools, cliVars, tools, disk, dbVars, settingsVars>>

\* ------------------------------------------------- the manager's calls
\* Tools are registered and unregistered, and any tool name is executed with
\* any arguments on any project path; the tool reached returns or raises.
ToolNames == {"run_command", "write_file", "ghost"}
ParamNames == {"command", "timeout"}
ParamTypes == {"str", "int", "bool"}
KwargsSet == UNION {[names -> ParamTypes] : names \in SUBSET ParamNames}
ProjectPaths ==
    {<<Sep, "proj">>, <<Sep, "proj", Sep, "a">>, <<Sep, "nope">>, <<"rel">>,
     <<Sep, "proj", Sep, "..", Sep, "proj">>}
ToolOutcomes ==
    {Returns(ToolResult(TRUE, <<"o", "k">>, "", NoMetadata)),
     Returns(Failure("Command exited with code 1")),
     Raises("boom")}
ToolsDisk ==
    (<<>> :> Dir) @@ (<<"proj">> :> Dir) @@ (<<"proj", "a">> :> File(<<"x">>))
    @@ (<<"srv">> :> Dir) @@ (<<"srv", "rel">> :> Dir)

InitTools ==
    /\ InitRegistry
    /\ InitChatManagers
    /\ ntools = 0
    /\ InitDatabase
    /\ tools = {}
    /\ disk = ToolsDisk
    /\ tool_result = Call("none", "", <<>>, <<>>, Returns(Failure("")), Returns(Failure("")))
    /\ effects = {}
    /\ IdleCli

NextTools ==
    \/ \E tool_name \in (DOMAIN ToolSchemas) \cap ToolNames : register_tool(tool_name)
    \/ \E tool_name \in ToolNames : unregister_tool(tool_name)
    \/ \E tool_name \in ToolNames, project_path \in ProjectPaths,
          kwargs \in KwargsSet, outcome \in ToolOutcomes :
          ManagerExecuteTool(tool_name, project_path, kwargs, outcome)

SpecTools == InitTools /\ [][NextTools]_vars

\* C12: execute_tool always returns a result and never raises to its caller;
\* the tool's execute is invoked only when the name is registered, the
\* parameters pass validation and the project path is an existing absolute
\* directory, the three being checked in that order; an exception raised by
\* the tool becomes a failure result that carries the exception text.
C12_ExecuteToolNeverRaises ==
    [][tool_result'.op = "execute_tool" =>
        LET c == tool_result'
            registered == c.tool_name \in tools
            valid == registered /\ validate_parameters(ToolSchemas[c.tool_name], c.kwargs)
            directory == /\ Node(disk, resolve(disk, c.project_path)).kind = "dir"
                         /\ c.project_path[1] = Sep
            executed == effects' # {}
        IN  /\ ~c.raised
            /\ executed <=> (registered /\ valid /\ directory)
            /\ ~registered => c.result = Failure("Tool '" \o c.tool_name \o "' not found")
            /\ registered /\ ~valid
                  => c.result = Failure("Invalid parameters for tool '" \o c.tool_name \o "'")
            /\ registered /\ valid /\ ~directory => c.result = Failure("Invalid project path")
            /\ executed /\ c.outcome.raised
                  => c.result = Failure("Tool '" \o c.tool_name \o "' execution failed: "
                                        \o c.outcome.text)
            /\ executed /\ ~c.outcome.raised => c.result = c.outcome.result]_vars

\* a registered tool was reached with valid arguments and raised
C12_Witness ==
    /\ tool_result.op = "execute_tool"
    /\ effects # {}
    /\ tool_result.outcome.raised
    /\ tool_result.outcome.text = "boom"
    /\ ~tool_result.result.success

\* -------------------------------------------------------- str methods
\* A text (command, file content) is a sequence of one-character strings.
ascii_uppercase ==
    <<"A", "B", "C", "D", "E", "F", "G", "H", "I", "J", "K", "L", "M",
      "N", "O", "P", "Q", "R", "S", "T", "U", "V", "W", "X", "Y", "Z">>
ascii_lowercase ==
    <<"a", "b", "c", "d", "e", "f", "g", "h", "i", "j", "k", "l", "m",
      "n", "o", "p", "q", "r", "s", "t", "u", "v", "w", "x", "y", "z">>
whitespace == {" ", "\t", "\n", "\r"}
backquote == "backquote"    \* the character U+0060, which a string cannot hold here

lower(s) ==
    [i \in 1..Len(s) |->
        IF \E k \in 1..26 : ascii_uppercase[k] = s[i]
        THEN ascii_lowercase[CHOOSE k \in 1..26 : ascii_uppercase[k] = s[i]]
        ELSE s[i]]

\* pattern in s
Contains(s, pattern) ==
    \E i \in 1..(Len(s) - Len(pattern) + 1) : SubSeq(s, i, i + Len(pattern) - 1) = pattern

RECURSIVE lstrip(_)
lstrip(s) == IF s # <<>> /\ Head(s) \in whitespace THEN lstrip(Tail(s)) ELSE s
RECURSIVE rstrip(_)
rstrip(s) ==
    IF s # <<>> /\ s[Len(s)] \in whitespace THEN rstrip(SubSeq(s, 1, Len(s) - 1)) ELSE s
strip(s) == rstrip(lstrip(s))

\* s.split('/')[-1]
RECURSIVE LastSegment(_)
LastSegment(s) ==
    IF s = <<>> \/ s[Len(s)] = Sep THEN <<>>
    ELSE Append(LastSegment(SubSeq(s, 1, Len(s) - 1)), s[Len(s)])

\* re.split(r'[;&|]+', s): the pieces between runs of separators
RECURSIVE ReSplit(_, _, _)
ReSplit(s, piece, in_run) ==
    IF s = <<>> THEN <<piece>>
    ELSE IF Head(s) \in {";", "&", "|"}
    THEN IF in_run THEN ReSplit(Tail(s), piece, TRUE)
         ELSE <<piece>> \o ReSplit(Tail(s), <<>>, TRUE)
    ELSE ReSplit(Tail(s), Append(piece, Head(s)), FALSE)
re_split(s) == ReSplit(s, <<>>, FALSE)

\* shlex.split(s): words separated by whitespace; quotes group and are
\* removed, a backslash takes the next character literally; an open quote
\* or a trailing backslash raises ValueError (ok = FALSE)
RECURSIVE Lex(_, _, _, _, _)
Lex(s, token, in_token, quote, tokens) ==
    IF s = <<>>
    THEN [ok |-> quote = "", tokens |-> IF in_token THEN Append(tokens, token) ELSE tokens]
    ELSE LET c == Head(s) IN
         IF quote = "'"
         THEN IF c = "'" THEN Lex(Tail(s), token, TRUE, "", tokens)
              ELSE Lex(Tail(s), Append(token, c), TRUE, quote, tokens)
         ELSE IF quote = "\""
         THEN IF c = "\"" THEN Lex(Tail(s), token, TRUE, "", tokens)
              ELSE IF c = "\\" /\ Len(s) >= 2 /\ s[2] \in {"\"", "\\"}
              THEN Lex(Tail(Tail(s)), Append(token, s[2]), TRUE, quote, tokens)
              ELSE Lex(Tail(s), Append(token, c), TRUE, quote, tokens)
         ELSE IF c \in whitespace
         THEN Lex(Tail(s), <<>>, FALSE, "", IF in_token THEN Append(tokens, token) ELSE tokens)
         ELSE IF c \in {"'", "\""} THEN Lex(Tail(s), token, TRUE, c, tokens)
         ELSE IF c = "\\"
         THEN IF Len(s) >= 2
              THEN Lex(Tail(Tail(s)), Append(token, s[2]), TRUE, "", tokens)
              ELSE [ok |-> FALSE, tokens |-> tokens]
         ELSE Lex(Tail(s), Append(token, c), TRUE, "", tokens)
shlex_split(s) == Lex(s, <<>>, FALSE, "", <<>>)

\* -------------------------------------------------- run_command_tool
DEFAULT_TIMEOUT == 30
MAX_TIMEOUT == 300
BLOCKED_COMMANDS ==
    {<<"d", "e", "l">>, <<"f", "o", "r", "m", "a", "t">>, <<"f", "d", "i", "s", "k">>,
     <<"m", "k", "f", "s">>, <<"d", "d">>, <<"s", "h", "r", "e", "d">>,
     <<"w", "i", "p", "e">>, <<"s", "h", "u", "t", "d", "o", "w", "n">>,
     <<"r", "e", "b", "o", "o", "t">>, <<"h", "a", "l", "t">>, <<"s", "u", "d", "o">>,
     <<"s", "u">>, <<"p", "a", "s", "s", "w", "d">>, <<"c", "h", "m", "o", "d">>,
     <<"c", "h", "o", "w", "n">>, <<"c", "h", "g", "r", "p">>, <<"m", "o", "u", "n", "t">>,
     <<"u", "m", "o", "u", "n", "t">>, <<"k", "i", "l", "l">>,
     <<"k", "i", "l", "l", "a", "l", "l">>, <<"p", "k", "i", "l", "l">>}
dangerous_patterns ==
    <<<<">", " ", "/", "d", "e", "v", "/">>, <<">", "/", "d", "e", "v", "/">>,
      <<"c", "u", "r", "l">>, <<"w", "g", "e", "t">>, <<"n", "c", " ">>,
      <<"n", "e", "t", "c", "a", "t">>, <<"&", "&", " ", "d", "e", "l", " ">>,
      <<";", " ", "d", "e", "l", " ">>, <<"e", "v", "a", "l">>, <<"e", "x", "e", "c">>,
      <<"$", "(">>, <<backquote>>, <<"o", "s", ".", "s", "y", "s", "t", "e", "m">>,
      <<"s", "u", "b", "p", "r", "o", "c", "e", "s", "s", ".", "c", "a", "l", "l">>,
      <<"s", "u", "b", "p", "r", "o", "c", "e", "s", "s", ".", "r", "u", "n">>>>

\* parts[0].split('/')[-1].lower()
base_command(parts) == lower(LastSegment(parts[1]))

\* the loop over command_parts: the first part that is blocked or cannot be
\* tokenized ends it
RECURSIVE CheckParts(_)
CheckParts(command_parts) ==
    IF command_parts = <<>>
    THEN [safe |-> TRUE, reason |-> "Command passed security validation"]
    ELSE LET part == strip(Head(command_parts))
             lexed == shlex_split(part)
         IN  IF part = <<>> THEN CheckParts(Tail(command_parts))
             ELSE IF ~lexed.ok THEN [safe |-> FALSE, reason |-> "Invalid command syntax"]
             ELSE IF lexed.tokens = <<>> THEN CheckParts(Tail(command_parts))
             ELSE IF base_command(lexed.tokens) \in BLOCKED_COMMANDS
             THEN [safe |-> FALSE, reason |-> "Command is blocked for security"]
             ELSE CheckParts(Tail(command_parts))

_validate_command_security_first_part(command) ==
    IF strip(command) = <<>> THEN [safe |-> FALSE, reason |-> "Empty command"]
    ELSE IF \E k \in 1..Len(dangerous_patterns) : Contains(lower(command), dangerous_patterns[k])
    THEN [safe |-> FALSE, reason |-> "Command contains dangerous pattern"]
    ELSE CheckParts(<<Head(re_split(command))>>)

_validate_command_security(command) ==
    IF strip(command) = <<>> THEN [safe |-> FALSE, reason |-> "Empty command"]
    ELSE IF \E k \in 1..Len(dangerous_patterns) : Contains(lower(command), dangerous_patterns[k])
    THEN [safe |-> FALSE, reason |-> "Command contains dangerous pattern"]
    ELSE CheckParts(re_split(command))

validate_timeout_unclamped(timeout) ==
    IF timeout < 1 THEN DEFAULT_TIMEOUT ELSE timeout

validate_timeout(timeout) ==
    IF timeout > MAX_TIMEOUT THEN MAX_TIMEOUT
    ELSE IF timeout < 1 THEN DEFAULT_TIMEOUT
    ELSE timeout

\* what the subprocess does once it is started
ProcessOutcomes == {"exit 0", "exit 1", "TimeoutError", "OSError"}

\* RunCommandTool.execute: the ToolResult and the subprocess started, if any
RunCommandTool_execute(dsk, project_path, kwargs, process) ==
    LET command == strip(IF "command" \in DOMAIN kwargs THEN kwargs.command ELSE <<>>)
        timeout == validate_timeout(IF "timeout" \in DOMAIN kwargs THEN kwargs.timeout
                                    ELSE DEFAULT_TIMEOUT)
        security_check == _validate_command_security(command)
        metadata == [NoMetadata EXCEPT !.timeout = timeout]
    IN  IF command = <<>>
        THEN [effects |-> {}, result |-> Failure("Command cannot be empty")]
        ELSE IF ~security_check.safe
        THEN [effects |-> {},
              result |-> Failure("Command blocked for security: " \o security_check.reason)]
        ELSE IF ~exists(dsk, project_path) \/ ~is_dir(dsk, project_path)
        THEN [effects |-> {}, result |-> Failure("Invalid project directory")]
        ELSE [effects |-> {Effect("subprocess", project_path, command, timeout)},
              result |->
                 CASE process = "exit 0" -> ToolResult(TRUE, <<"o", "u", "t">>, "", metadata)
                   [] process = "exit 1" ->
                        ToolResult(FALSE, <<"e", "r", "r">>, "Command exited with code 1", metadata)
                   [] process = "TimeoutError" ->
                        ToolResult(FALSE, <<>>, "Command timed out",
                                   [NoMetadata EXCEPT !.timeout = 1])
                   [] OTHER -> Failure("Command execution failed: OSError")]

\* a call on a tool that has been made and has not run yet
Pending(tool_name, project_path, kwargs) ==
    Call("pending", tool_name, project_path, kwargs, Returns(Failure("")), Returns(Failure("")))

RunCommand(process) ==
    /\ tool_result.op = "pending"
    /\ tool_result.tool_name = "run_command"
    /\ LET r == RunCommandTool_execute(disk, tool_result.project_path, tool_result.kwargs, process)
       IN  /\ tool_result' = [tool_result EXCEPT !.op = "execute", !.result = r.result]
           /\ effects' = r.effects
    /\ UNCHANGED <<registryVars, managers, reqs, ntools, cliVars, tools, disk, dbVars, settingsVars>>

\* --------------------------------------------------- run_command calls
\* One call of run_command: the command is made of up to four pieces, the
\* timeout is left out or given.
CommandPieces ==
    {<<"l", "s">>, <<"d", "e", "l">>, <<"D", "E", "L">>, <<" ">>, <<";">>, <<"&">>, <<"|">>,
     <<"/">>, <<"'">>, <<backquote>>, <<"N", "C">>}
Commands ==
    {<<>>} \cup CommandPieces
    \cup {a \o b : a \in CommandPieces, b \in CommandPieces}
    \cup {a \o b \o c : a \in CommandPieces, b \in CommandPieces, c \in CommandPieces}
    \cup {a \o b \o c \o d : a \in CommandPieces, b \in CommandPieces,
                             c \in CommandPieces, d \in CommandPieces}
Timeouts == {-1, 0, 1, 2, 30, 299, 300, 301, 86400}
TimedCommands == {<<"l", "s">>, <<"l", "s", ";", "d", "e", "l">>}
ShellKwargs ==
    {[command |-> c] : c \in Commands}
    \cup {[command |-> c, timeout |-> t] : c \in TimedCommands, t \in Timeouts}
    \cup {[timeout |-> t] : t \in Timeouts}

InitShell ==
    /\ InitRegistry
    /\ InitChatManagers
    /\ ntools = 0
    /\ InitDatabase
    /\ tools = {"run_command"}
    /\ disk = ToolsDisk
    /\ \/ \E kwargs \in ShellKwargs :
             tool_result = Pending("run_command", <<Sep, "proj">>, kwargs)
       \/ \E c \in TimedCommands, t \in Timeouts :
             tool_result = Pending("run_command", <<Sep, "nope">>, [command |-> c, timeout |-> t])
    /\ effects = {}
    /\ IdleCli

NextShell == \E process \in ProcessOutcomes : RunCommand(process)

SpecShell == InitShell /\ [][NextShell]_vars

\* the sub-commands of a command: the longest stretches without ';', '&', '|'
SubCommands(command) ==
    {SubSeq(command, i, j) : <<i, j>> \in
        {<<i, j>> \in (1..Len(command)) \X (1..Len(command)) :
            /\ i <= j
            /\ \A k \in i..j : command[k] \notin {";", "&", "|"}
            /\ i = 1 \/ command[i - 1] \in {";", "&", "|"}
            /\ j = Len(command) \/ command[j + 1] \in {";", "&", "|"}}}

BlockedSubCommand(sub) ==
    LET lexed == shlex_split(sub)
    IN  /\ lexed.ok
        /\ lexed.tokens # <<>>
        /\ lower(LastSegment(lexed.tokens[1])) \in BLOCKED_COMMANDS

Refused(command) ==
    \/ command = <<>>
    \/ \E k \in 1..Len(dangerous_patterns) :
          \E i \in 1..Len(command) :
             /\ i + Len(dangerous_patterns[k]) - 1 <= Len(command)
             /\ \A n \in 1..Len(dangerous_patterns[k]) :
                   lower(<<command[i + n - 1]>>) = <<dangerous_patterns[k][n]>>
    \/ \E sub \in SubCommands(command) : BlockedSubCommand(sub)

C14_TimeoutClamped ==
    tool_result.op = "execute" /\ tool_result.tool_name = "run_command" =>
        LET kwargs == tool_result.kwargs
            requested == IF "timeout" \in DOMAIN kwargs THEN kwargs.timeout ELSE 30
        IN  /\ \A e \in effects :
                  /\ e.timeout \in 1..300
                  /\ requested > 300 => e.timeout = 300
                  /\ requested < 1 => e.timeout = 30
                  /\ requested \in 1..300 => e.timeout = requested
            /\ /\ "command" \in DOMAIN kwargs
               /\ kwargs.command = <<"l", "s">>
               /\ tool_result.project_path = <<Sep, "proj">>
               => /\ effects # {}
                  /\ tool_result.result.error
                        \in {"", "Command exited with code 1", "Command timed out",
                             "Command execution failed: OSError"}

\* a day was asked for and the command ran under 300 seconds
C14_Witness ==
    /\ tool_result.op = "execute"
    /\ "timeout" \in DOMAIN tool_result.kwargs
    /\ tool_result.kwargs.timeout = 86400
    /\ \E e \in effects : e.timeout = 300
    /\ tool_result.result.success

\* -------------------------------------------------------- file system
IsPrefix(p, loc) == Len(p) <= Len(loc) /\ SubSeq(loc, 1, Len(p)) = p

\* the location a system call on a location reaches: symlinks are followed
Locate(dsk, loc) == Walk(dsk, <<>>, loc, Cardinality(DOMAIN dsk))

\* open(loc, 'w') and write: the file reached is created or overwritten
open_w(dsk, loc, content) ==
    LET at == Locate(dsk, loc)
    IN  IF Node(dsk, at).kind = "dir" \/ Node(dsk, Parent(at)).kind # "dir" \/ at = <<>>
        THEN [ok |-> FALSE, disk |-> dsk, at |-> at]
        ELSE [ok |-> TRUE, disk |-> Put(dsk, at, File(content)), at |-> at]

\* Path.mkdir(parents=True, exist_ok=True) on the parent of a resolved path
mkdir_parents(dsk, loc) ==
    LET above == {SubSeq(loc, 1, k) : k \in 0..(Len(loc) - 1)}
        missing == {a \in above : Node(dsk, a).kind = "none"}
    IN  IF \E a \in above : Node(dsk, a).kind = "file"
        THEN [ok |-> FALSE, disk |-> dsk, made |-> {}]
        ELSE [ok |-> TRUE, made |-> missing,
              disk |-> [l \in DOMAIN dsk \cup missing |->
                           IF l \in missing THEN Dir ELSE dsk[l]]]

\* content.count(sub) and content.replace(old, new): matches are taken from
\* the left and do not overlap
RECURSIVE count(_, _)
count(s, sub) ==
    IF Len(s) < Len(sub) THEN 0
    ELSE IF SubSeq(s, 1, Len(sub)) = sub
    THEN 1 + count(SubSeq(s, Len(sub) + 1, Len(s)), sub)
    ELSE count(Tail(s), sub)

RECURSIVE replace(_, _, _)
replace(s, old, new) ==
    IF Len(s) < Len(old) THEN s
    ELSE IF SubSeq(s, 1, Len(old)) = old
    THEN new \o replace(SubSeq(s, Len(old) + 1, Len(s)), old, new)
    ELSE <<Head(s)>> \o replace(Tail(s), old, new)

RECURSIVE lstrip_sep(_)
lstrip_sep(s) == IF s # <<>> /\ Head(s) = Sep THEN lstrip_sep(Tail(s)) ELSE s

\* f.readlines(): the lines, each with its newline
RECURSIVE readlines(_)
readlines(s) ==
    IF s = <<>> THEN <<>>
    ELSE IF \E k \in 1..Len(s) : s[k] = "\n"
    THEN LET k == CHOOSE k \in 1..Len(s) : s[k] = "\n" /\ \A j \in 1..(k - 1) : s[j] # "\n"
         IN  <<SubSeq(s, 1, k)>> \o readlines(SubSeq(s, k + 1, Len(s)))
    ELSE <<s>>

RECURSIVE rstrip_newline(_)
rstrip_newline(s) ==
    IF s # <<>> /\ s[Len(s)] \in {"\n", "\r"}
    THEN rstrip_newline(SubSeq(s, 1, Len(s) - 1)) ELSE s

\* ---------------------------------------------------- filesystem tools
BACKUP_SUFFIX == ".backup"
SystemDirectories == {"etc", "usr", "var", "sys", "proc", "dev"}
SecretNames == {"passwd", "shadow", "sudoers"}

\* BLOCKED_PATTERNS on the resolved path; a component is one name here, so
\* a pattern is found when a whole component is it
blocked_pattern(full_path) ==
    \/ \E i \in 1..(Len(full_path) - 1) : full_path[i] \in SystemDirectories \cup {".ssh"}
    \/ \E i \in 1..Len(full_path) : full_path[i] \in SecretNames
    \/ \E i \in 1..(Len(full_path) - 1) : full_path[i] = ".git" /\ full_path[i + 1] = "config"

\* _resolve_file_path of the three tools; read_file has no blocked patterns
\* (blocked_error = "")
_resolve_file_path(dsk, project_path, file_path, blocked_error) ==
    LET relative == IF file_path # <<>> /\ file_path[1] = Sep
                    THEN lstrip_sep(file_path) ELSE file_path
        full_path == resolve(dsk, project_path \o <<Sep>> \o relative)
    IN  IF ~exists(dsk, project_path) \/ ~is_dir(dsk, project_path)
        THEN [ok |-> FALSE, error |-> "Invalid project directory", full_path |-> <<>>]
        ELSE IF ~IsPrefix(resolve(dsk, project_path), full_path)
        THEN [ok |-> FALSE, error |-> "Path outside project directory", full_path |-> <<>>]
        ELSE IF blocked_error # "" /\ blocked_pattern(full_path)
        THEN [ok |-> FALSE, error |-> blocked_error, full_path |-> <<>>]
        ELSE [ok |-> TRUE, error |-> "", full_path |-> full_path]

\* kwargs.get(name, default)
Get(kwargs, name, default) == IF name \in DOMAIN kwargs THEN kwargs[name] ELSE default

Touched(op, loc) == Effect(op, loc, <<>>, 0)
Outcome(dsk, result, touched) == [disk |-> dsk, result |-> result, effects |-> touched]

lines_written_plus_one(content) ==
    IF content = <<>> THEN 0 ELSE count(content, <<"\n">>) + 1

lines_written(content) ==
    IF content = <<>> THEN 0
    ELSE IF content[Len(content)] = "\n"
    THEN (IF count(content, <<"\n">>) > 1 THEN count(content, <<"\n">>) ELSE 1)
    ELSE count(content, <<"\n">>) + 1

WriteFileTool_execute(dsk, project_path, kwargs) ==
    LET file_path == strip(Get(kwargs, "file_path", <<>>))
        content == Get(kwargs, "content", <<>>)
        path == _resolve_file_path(dsk, project_path, file_path,
                                   "Cannot write to system location")
        made == mkdir_parents(dsk, path.full_path)
        file_existed == Node(made.disk, path.full_path).kind # "none"
        written == open_w(made.disk, path.full_path, content)
        mkdirs == {Touched("mkdir", d) : d \in made.made}
    IN  IF file_path = <<>> THEN Outcome(dsk, Failure("File path cannot be empty"), {})
        ELSE IF ~path.ok THEN Outcome(dsk, Failure(path.error), {})
        ELSE IF ~made.ok THEN Outcome(dsk, Failure("Error writing file"), {})
        ELSE IF ~written.ok THEN Outcome(made.disk, Failure("Error writing file"), mkdirs)
        ELSE Outcome(written.disk,
                     ToolResult(TRUE, content, "",
                                [NoMetadata EXCEPT
                                    !.lines_written = lines_written(content),
                                    !.action = IF file_existed THEN "overwritten"
                                               ELSE "created"]),
                     mkdirs \cup {Touched("write", written.at)})

\* occurrences > 1
several_occurrences(content, old_text) == count(content, old_text) > 1

\* a lone surrogate, which json.loads accepts in a string and the utf-8
\* codec refuses to encode
Surrogate == "U+D800"

\* f.write(text) on a file opened with encoding='utf-8' does not raise
encodable(text) == \A i \in 1..Len(text) : text[i] # Surrogate

\* the copy to the backup path: shutil.copy2(full_path, backup_path)
copy_backup(dsk, full_path, backup_path) ==
    open_w(dsk, backup_path, Node(dsk, full_path).content)

EditFileTool_execute(dsk, project_path, kwargs) ==
    LET file_path == strip(Get(kwargs, "file_path", <<>>))
        old_text == Get(kwargs, "old_text", <<>>)
        new_text == Get(kwargs, "new_text", <<>>)
        path == _resolve_file_path(dsk, project_path, file_path, "Cannot edit system file")
        full_path == path.full_path
        content == Node(dsk, full_path).content
        backup_path == Append(Parent(full_path), full_path[Len(full_path)] \o BACKUP_SUFFIX)
        backup == copy_backup(dsk, full_path, backup_path)
        written == open_w(backup.disk, full_path, replace(content, old_text, new_text))
    IN  IF file_path = <<>> THEN Outcome(dsk, Failure("File path cannot be empty"), {})
        ELSE IF old_text = <<>> THEN Outcome(dsk, Failure("Old text cannot be empty"), {})
        ELSE IF ~path.ok THEN Outcome(dsk, Failure(path.error), {})
        ELSE IF Node(dsk, full_path).kind = "none"
        THEN Outcome(dsk, Failure("File does not exist"), {})
        ELSE IF Node(dsk, full_path).kind = "dir"
        THEN Outcome(dsk, Failure("Error editing file"), {})
        ELSE IF ~Contains(content, old_text)
        THEN Outcome(dsk, Failure("Text not found"), {Touched("read", full_path)})
        ELSE IF several_occurrences(content, old_text)
        THEN Outcome(dsk, Failure("Text appears several times in file"),
                     {Touched("read", full_path)})
        ELSE IF ~backup.ok
        THEN Outcome(dsk, Failure("Error editing file"), {Touched("read", full_path)})
        ELSE IF ~encodable(new_text)
        THEN Outcome(open_w(backup.disk, full_path, <<>>).disk, Failure("Error editing file"),
                     {Touched("read", full_path), Touched("write", backup.at),
                      Touched("write", written.at)})
        ELSE Outcome(written.disk,
                     ToolResult(TRUE, <<>>, "",
                                [NoMetadata EXCEPT !.backup_created = backup_path]),
                     {Touched("read", full_path), Touched("write", backup.at),
                      Touched("write", written.at)})

vertical_bar == "U+2502"    \* the box-drawing bar that follows a line number

\* the numbered lines of the answer, joined by newlines
RECURSIVE FormatLines(_, _)
FormatLines(lines, line_num) ==
    IF lines = <<>> THEN <<>>
    ELSE <<ToString(line_num), vertical_bar, " ">> \o rstrip_newline(Head(lines))
         \o (IF Len(lines) > 1 THEN <<"\n">> ELSE <<>>)
         \o FormatLines(Tail(lines), line_num + 1)

RECURSIVE Join(_)
Join(lines) == IF lines = <<>> THEN <<>> ELSE Head(lines) \o Join(Tail(lines))

ReadFileTool_execute(dsk, project_path, kwargs) ==
    LET file_path == strip(Get(kwargs, "file_path", <<>>))
        start_line == Get(kwargs, "start_line", 0)
        end_line == Get(kwargs, "end_line", 0)
        has_start == "start_line" \in DOMAIN kwargs
        has_end == "end_line" \in DOMAIN kwargs
        path == _resolve_file_path(dsk, project_path, file_path, "")
        full_path == path.full_path
        lines == readlines(Node(dsk, full_path).content)
        total_lines == Len(lines)
        start_idx == IF has_start THEN start_line - 1 ELSE 0
        end_idx == IF has_end THEN end_line ELSE total_lines
        range == SubSeq(lines, start_idx + 1, end_idx)
        read == {Touched("read", full_path)}
    IN  IF file_path = <<>> THEN Outcome(dsk, Failure("File path cannot be empty"), {})
        ELSE IF has_start /\ start_line < 1
        THEN Outcome(dsk, Failure("start_line must be 1 or greater"), {})
        ELSE IF has_end /\ end_line < 1
        THEN Outcome(dsk, Failure("end_line must be 1 or greater"), {})
        ELSE IF has_start /\ has_end /\ start_line > end_line
        THEN Outcome(dsk, Failure("start_line cannot be greater than end_line"), {})
        ELSE IF ~path.ok THEN Outcome(dsk, Failure(path.error), {})
        ELSE IF Node(dsk, full_path).kind = "none"
        THEN Outcome(dsk, Failure("File does not exist"), {})
        ELSE IF Node(dsk, full_path).kind # "file"
        THEN Outcome(dsk, Failure("Path is not a file"), {})
        ELSE IF has_start /\ start_line > total_lines
        THEN Outcome(dsk, Failure("start_line exceeds file length"), read)
        ELSE IF has_end /\ end_line > total_lines
        THEN Outcome(dsk, Failure("end_line exceeds file length"), read)
        ELSE Outcome(dsk,
                     ToolResult(TRUE,
                                IF Get(kwargs, "show_line_numbers", TRUE)
                                THEN FormatLines(range, start_idx + 1)
                                ELSE rstrip_newline(Join(range)),
                                "", NoMetadata),
                     read)

\* the pending call runs
RunFileTool(tool_name, outcome) ==
    /\ tool_result.op = "pending"
    /\ tool_result.tool_name = tool_name
    /\ tool_result' = [tool_result EXCEPT !.op = "execute", !.result = outcome.result]
    /\ disk' = outcome.disk
    /\ effects' = outcome.effects
    /\ UNCHANGED <<registryVars, managers, reqs, ntools, cliVars, tools, dbVars, settingsVars>>

WriteFile ==
    RunFileTool("write_file",
                WriteFileTool_execute(disk, tool_result.project_path, tool_result.kwargs))
EditFile ==
    RunFileTool("edit_file",
                EditFileTool_execute(disk, tool_result.project_path, tool_result.kwargs))
ReadFile ==
    RunFileTool("read_file",
                ReadFileTool_execute(disk, tool_result.project_path, tool_result.kwargs))

\* ------------------------------------------------ filesystem tool calls
\* One call of a filesystem tool on a project that holds a file f, perhaps a
\* file or a symlink at f.backup, and symlinks that lead out of the project.
Outside == <<Sep, "out", Sep, "t">>
FileContents ==
    {<<>>, <<"a">>, <<"a", "a">>, <<"a", "a", "a">>, <<"a", "\n", "a">>, <<"b", "a", "b">>}
BackupNodes == {NoNode, File(<<"o">>), Link(Outside)}
FilesDisks ==
    {(<<>> :> Dir) @@ (<<"proj">> :> Dir) @@ (<<"proj", "d">> :> Dir)
     @@ (<<"out">> :> Dir) @@ (<<"out", "t">> :> File(<<"s">>))
     @@ (<<"plink">> :> Link(<<Sep, "proj">>))
     @@ (<<"proj", "lnk">> :> Link(Outside))
     @@ (<<"proj", "dlnk">> :> Link(<<Sep, "out">>))
     @@ (<<"proj", "f">> :> f) @@ (<<"proj", "f.backup">> :> b) :
        f \in {NoNode} \cup {File(c) : c \in FileContents}, b \in BackupNodes}
ProjectRoots == {<<Sep, "proj">>, <<Sep, "plink">>, <<Sep, "nope">>}
FilePaths ==
    {<<>>, <<"f">>, <<Sep, Sep, "f">>, <<"..", Sep, "out", Sep, "t">>,
     <<"d", Sep, "..", Sep, "..", Sep, "out", Sep, "t">>, Outside, <<"lnk">>,
     <<"dlnk", Sep, "t">>, <<"etc", Sep, "f">>, <<"f.backup">>, <<" ", "d", Sep, "n">>}
WrittenContents ==
    {<<>>} \cup {<<a>> : a \in {"a", "\n"}} \cup {<<a, b>> : a, b \in {"a", "\n"}}
    \cup {<<a, b, c>> : a, b, c \in {"a", "\n"}}
OldTexts == {<<>>, <<"a">>, <<"a", "a">>, <<"b">>}
NewTexts == {<<>>, <<"c">>}
FileCalls ==
    {[tool_name |-> "write_file", kwargs |-> [file_path |-> p, content |-> c]] :
        p \in FilePaths, c \in WrittenContents}
    \cup {[tool_name |-> "edit_file",
           kwargs |-> [file_path |-> p, old_text |-> o, new_text |-> n]] :
        p \in FilePaths, o \in OldTexts, n \in NewTexts}
    \cup {[tool_name |-> "read_file", kwargs |-> [file_path |-> p]] : p \in FilePaths}
    \cup {[tool_name |-> "read_file",
           kwargs |-> [file_path |-> p, start_line |-> s, show_line_numbers |-> n]] :
        p \in {<<"f">>, <<"lnk">>}, s \in {0, 2}, n \in BOOLEAN}
    \cup {[tool_name |-> "read_file",
           kwargs |-> [file_path |-> <<"f">>, start_line |-> s, end_line |-> e]] :
        s \in {1, 2}, e \in {0, 1, 2}}

InitFiles ==
    /\ InitRegistry
    /\ InitChatManagers
    /\ ntools = 0
    /\ InitDatabase
    /\ tools = {"read_file", "write_file", "edit_file"}
    /\ disk \in FilesDisks
    /\ \E call \in FileCalls, project_path \in ProjectRoots :
          tool_result = Pending(call.tool_name, project_path, call.kwargs)
    /\ effects = {}
    /\ IdleCli

NextFiles == WriteFile \/ EditFile \/ ReadFile

SpecFiles == InitFiles /\ [][NextFiles]_vars

\* the positions at which a text occurs in a content
Positions(content, text) ==
    {i \in 1..(Len(content) - Len(text) + 1) : SubSeq(content, i, i + Len(text) - 1) = text}

\* the call is an edit_file of the project's file f
EditsF ==
    /\ tool_result'.op = "execute"
    /\ tool_result.tool_name = "edit_file"
    /\ tool_result.project_path \in {<<Sep, "proj">>, <<Sep, "plink">>}
    /\ tool_result.kwargs.file_path \in {<<"f">>, <<Sep, Sep, "f">>}
    /\ disk[<<"proj", "f">>].kind = "file"

\* C15: edit_file modifies the file only if old_text occurs in it exactly
\* once; when old_text occurs at no position or at more than one position the
\* call fails, the file content is unchanged and no backup is created.
C15_EditNeedsOneOccurrence ==
    [][EditsF =>
        LET occurrences == Cardinality(Positions(disk[<<"proj", "f">>].content,
                                                 tool_result.kwargs.old_text))
        IN  /\ tool_result'.result.success => occurrences = 1
            /\ occurrences # 1 => ~tool_result'.result.success /\ disk' = disk]_vars

\* the locations a call created, overwrote or read
Changed == {l \in DOMAIN disk' : Node(disk, l) # disk'[l] }
ReadFrom == {e.path : e \in {x \in effects' : x.op = "read"}}

\* the failures a tool answers with before it looks at the path
ArgumentErrors ==
    {"Old text cannot be empty", "start_line must be 1 or greater",
     "end_line must be 1 or greater", "start_line cannot be greater than end_line"}

\* C16: read_file, write_file and edit_file read, create, overwrite or back
\* up only files whose resolved location is inside the resolved project
\* root, whatever the file_path (".." segments and absolute paths included);
\* a file_path that resolves outside the root fails with "Path outside
\* project directory" (or with the failure of another argument that is
\* looked at first) and touches no file.
C16_FilesStayInsideProject ==
    [][tool_result'.op = "execute"
          /\ tool_result.tool_name \in {"read_file", "write_file", "edit_file"}
          /\ Node(disk, resolve(disk, tool_result.project_path)).kind = "dir" =>
        LET root == resolve(disk, tool_result.project_path)
            file_path == lstrip_sep(strip(tool_result.kwargs.file_path))
            location == resolve(disk, tool_result.project_path \o <<Sep>> \o file_path)
        IN  /\ \A l \in Changed \cup ReadFrom : IsPrefix(root, Locate(disk, l))
            /\ file_path # <<>> /\ ~IsPrefix(root, location)
                  => /\ ~tool_result'.result.success
                     /\ tool_result'.result.error
                           \in {"Path outside project directory"} \cup ArgumentErrors
                     /\ disk' = disk
                     /\ effects' = {}]_vars

\* C17: a successful write_file reports lines_written = 0 for an empty
\* content, the larger of 1 and the number of newline characters for a
\* content that ends with a newline, and the number of newline characters
\* plus one otherwise.
C17_LinesWritten ==
    tool_result.op = "execute" /\ tool_result.tool_name = "write_file"
       /\ tool_result.result.success =>
        LET content == tool_result.kwargs.content
            newlines == Cardinality({i \in 1..Len(content) : content[i] = "\n"})
            reported == tool_result.result.metadata.lines_written
        IN  /\ content = <<>> => reported = 0
            /\ content # <<>> /\ content[Len(content)] = "\n"
                  => reported >= 1 /\ reported >= newlines /\ reported \in {1, newlines}
            /\ content # <<>> /\ content[Len(content)] # "\n" => reported = newlines + 1

\* a line and its newline were written and counted as one line
C17_Witness ==
    /\ tool_result.op = "execute"
    /\ tool_result.tool_name = "write_file"
    /\ tool_result.result.success
    /\ tool_result.kwargs.content = <<"a", "\n">>
    /\ tool_result.result.metadata.lines_written = 1
    /\ disk[<<"proj", "f">>] = File(<<"a", "\n">>)

\* ======================================================================
\* The command-line client (src/ai_cli): the project registry kept in
\* ~/.ai-cli/config.json and the project picker.
\* ======================================================================
uiVars == <<ui_projects, selected_index, scroll_offset, terminal_height, screen, ttyVars>>
serverVars == <<registryVars, managers, reqs, ntools, toolVars, dbVars, settingsVars>>

\* --------------------------------------------------------- ai_cli/config.py
\* The fields of ProjectConfig the registry and the picker work with; a
\* name, a path or a description is a text, the sequence of its characters.
ProjectConfig(name, path, description) ==
    [name |-> name, path |-> path, description |-> description]

\* load_config builds a fresh Config from the file (no project when the file
\* is missing); save_config writes the projects of the Config it is given.
load_config == config_file

save_config(config) == config

CliCall(op, name, path, description, outcome) ==
    [op |-> op, name |-> name, path |-> path, description |-> description,
     outcome |-> outcome]

\* The result of a registry call: whether it raised, and the file afterwards.
add_project_name_only(config, name, path, description) ==
    IF \E i \in 1..Len(config) : config[i].name = name
    THEN [raised |-> TRUE, file |-> config]
    ELSE [raised |-> FALSE,
          file |-> save_config(Append(config, ProjectConfig(name, path, description)))]

add_project(config, name, path, description) ==
    IF \E i \in 1..Len(config) : config[i].name = name \/ config[i].path = path
    THEN [raised |-> TRUE, file |-> config]
    ELSE [raised |-> FALSE,
          file |-> save_config(Append(config, ProjectConfig(name, path, description)))]

\* remove_project saves only when a project went away, and returns whether
\* one did.
remove_project(config, name) ==
    LET kept == SelectSeq(config, LAMBDA p : p.name # name)
    IN IF Len(kept) < Len(config)
       THEN [returned |-> TRUE, file |-> save_config(kept)]
       ELSE [returned |-> FALSE, file |-> config]

AddProject(name, path, description) ==
    LET call == add_project(load_config, name, path, description)
    IN /\ config_file' = call.file
       /\ cli_call' = CliCall("add_project", name, path, description,
                              IF call.raised THEN "ValueError" ELSE "returned")
       /\ UNCHANGED <<serverVars, uiVars>>

RemoveProject(name) ==
    LET call == remove_project(load_config, name)
    IN /\ config_file' = call.file
       /\ cli_call' = CliCall("remove_project", name, <<>>, <<>>,
                              IF call.returned THEN "True" ELSE "False")
       /\ UNCHANGED <<serverVars, uiVars>>

\* ------------------------------------------------- the calls of one run
CliNames == {<<"a">>, <<"b">>, <<"c">>}
CliPaths == {<<"/", "a">>, <<"/", "b">>, <<"/", "c">>}
CliDescriptions == {<<>>, <<"d">>}

NextCli ==
    \/ \E name \in CliNames, path \in CliPaths, description \in CliDescriptions :
          AddProject(name, path, description)
    \/ \E name \in CliNames : RemoveProject(name)

SpecCli == Init /\ [][NextCli]_vars

\* ------------------------------------------------------------------ C18
SameNameOrPath(config, name, path) ==
    \E i \in 1..Len(config) : config[i].name = name \/ config[i].path = path

PairwiseDistinct(config) ==
    \A i, j \in 1..Len(config) :
        i # j => config[i].name # config[j].name /\ config[i].path # config[j].path

\* C18: add_project is rejected and leaves the registry as it was whenever a
\* project of the registry has the same name or the same path, so that in a
\* registry built from the empty one by add_project and remove_project calls
\* no two projects share a name and no two share a path.
C18_AddProjectKeepsNamesAndPathsDistinct ==
    /\ [][(/\ cli_call'.op = "add_project"
           /\ SameNameOrPath(config_file, cli_call'.name, cli_call'.path))
          => (cli_call'.outcome = "ValueError" /\ config_file' = config_file)]_vars
    /\ []PairwiseDistinct(config_file)

\* an add_project with a new name and a taken path was rejected while the
\* registry held two projects
C18_Witness ==
    /\ cli_call.op = "add_project"
    /\ cli_call.outcome = "ValueError"
    /\ Len(config_file) = 2
    /\ \A i \in 1..Len(config_file) : config_file[i].name # cli_call.name
    /\ \E i \in 1..Len(config_file) : config_file[i].path = cli_call.path

\* ------------------------------------------------------------- ai_cli/ui.py
\* Rows are numbered from 0, as the picker numbers them; row i shows
\* projects[i + 1] of the sequence.

\* _load_projects: take the projects of a fresh load_config and pull the
\* selection back to the last row of a non-empty list.
_load_projects(config, selected) ==
    [projects |-> config,
     selected_index |-> IF config # <<>> /\ selected >= Len(config)
                        THEN Len(config) - 1
                        ELSE selected]

\* _move_selection: step, wrap around, then scroll with a window of
\* terminal_height - 6 rows.
_move_selection(listed, selected, offset, height, direction) ==
    IF listed = <<>>
    THEN [selected_index |-> selected, scroll_offset |-> offset]
    ELSE LET stepped == selected + direction
             wrapped == IF stepped < 0 THEN Len(listed) - 1
                        ELSE IF stepped >= Len(listed) THEN 0
                        ELSE stepped
             visible_lines == height - 6
         IN [selected_index |-> wrapped,
             scroll_offset |-> IF wrapped < offset THEN wrapped
                               ELSE IF wrapped >= offset + visible_lines
                                    THEN wrapped - visible_lines + 1
                                    ELSE offset]

\* _draw_projects: the rows printed, range(start_idx, end_idx) with a window
\* of terminal_height - 7 rows; the empty state prints no row.
_draw_projects(listed, offset, height) ==
    IF listed = <<>>
    THEN {}
    ELSE LET visible_lines == height - 7
             start_idx == offset
             end_idx == IF start_idx + visible_lines < Len(listed)
                        THEN start_idx + visible_lines
                        ELSE Len(listed)
         IN {i \in 0..(Len(listed) - 1) : start_idx <= i /\ i < end_idx}

\* One turn of _main_loop after the first: the handler of the key read,
\* then the redraw at the top of the next turn. The terminal keeps its size,
\* so _update_terminal_size reads the same height again.
MoveSelection(key, direction) ==
    LET moved == _move_selection(ui_projects, selected_index, scroll_offset,
                                 terminal_height, direction)
    IN /\ selected_index' = moved.selected_index
       /\ scroll_offset' = moved.scroll_offset
       /\ screen' = _draw_projects(ui_projects, moved.scroll_offset, terminal_height)
       /\ cli_call' = CliCall(key, <<>>, <<>>, <<>>, "")
       /\ UNCHANGED <<serverVars, config_file, ui_projects, terminal_height, ttyVars>>

UpArrow == MoveSelection("up_arrow", -1)

DownArrow == MoveSelection("down_arrow", 1)

Refresh ==
    LET loaded == _load_projects(load_config, selected_index)
    IN /\ ui_projects' = loaded.projects
       /\ selected_index' = loaded.selected_index
       /\ screen' = _draw_projects(loaded.projects, scroll_offset, terminal_height)
       /\ cli_call' = CliCall("r", <<>>, <<>>, <<>>, "")
       /\ UNCHANGED <<serverVars, config_file, scroll_offset, terminal_height, ttyVars>>

\* ------------------------------------------------- the pickers of one run
MaxPickerProjects == 20          \* projects in the registry the picker opens
TerminalHeights == {8, 12, 24}   \* rows of the terminal

NumberedProjects(n) ==
    [i \in 1..n |-> ProjectConfig(<<"p", ToString(i)>>, <<"/", "p", ToString(i)>>, <<>>)]

\* The terminal's mode is "cooked" (canonical input, the state the shell left
\* it in) or "raw"; old_settings holds what tcgetattr saved.
CookedTerminal == [mode |-> "cooked", cursor |-> "shown", old_settings |-> "unset"]

_setup_terminal(tty) ==
    [mode |-> "raw", cursor |-> "hidden", old_settings |-> tty.mode]

_setup_terminal_raw_nothing(tty) == tty

_setup_terminal_raw(tty) == [tty EXCEPT !.mode = "raw", !.cursor = "hidden"]

_restore_terminal_for_input(tty) ==
    [tty EXCEPT !.mode = tty.old_settings, !.cursor = "shown"]

_restore_terminal(tty) == [tty EXCEPT !.mode = tty.old_settings, !.cursor = "shown"]

\* where run() stands: blocked in the _get_key of _main_loop
PickerRun(pc, ended_by, returned, key, read_in, dialogs) ==
    [pc |-> pc, ended_by |-> ended_by, returned |-> returned, key |-> key,
     read_in |-> read_in, dialogs |-> dialogs]

\* run(): the picker loads the registry and _main_loop draws the first screen
Opened(config, height) ==
    /\ config_file = config
    /\ ui_projects = _load_projects(config, 0).projects
    /\ selected_index = _load_projects(config, 0).selected_index
    /\ scroll_offset = 0
    /\ terminal_height = height
    /\ screen = _draw_projects(config, 0, height)
    /\ cli_call = CliCall("run", <<>>, <<>>, <<>>, "")
    /\ stdin = <<>>
    /\ terminal = _setup_terminal(CookedTerminal)
    /\ picker_run = PickerRun("main_loop", "", "", "", "", 0)

InitPicker ==
    /\ InitRegistry
    /\ InitChatManagers
    /\ ntools = 0
    /\ InitDatabase
    /\ IdleTools
    /\ \E n \in 0..MaxPickerProjects, height \in TerminalHeights :
          Opened(NumberedProjects(n), height)

NextPicker == UpArrow \/ DownArrow \/ Refresh

SpecPicker == InitPicker /\ [][NextPicker]_vars

\* ------------------------------------------------------------------ C19
\* C19: with a non-empty list, an up or down key moves the selection by one
\* row, wrapping around within the rows of the list, and the selected row is
\* one of the rows the following redraw prints.
C19_SelectionWrapsAndIsDrawn ==
    [][(cli_call'.op \in {"up_arrow", "down_arrow"} /\ ui_projects # <<>>)
       => LET direction == IF cli_call'.op = "down_arrow" THEN 1 ELSE -1
          IN /\ selected_index' = (selected_index + direction) % Len(ui_projects)
             /\ selected_index' \in screen']_vars

\* --------------------------------------------- ai_cli/ui.py: n, e and d
\* What a handler leaves behind: the message it shows, the file, and the
\* picker's list and selection.
Handled(message, file, listed, selected) ==
    [message |-> message, file |-> file, projects |-> listed, selected_index |-> selected]

default_path == <<"/", "w">>    \* str(Path.cwd())

\* the row of the first project called name, or the selection as it was
RowOf(listed, name, selected) ==
    IF \E i \in 1..Len(listed) : listed[i].name = name
    THEN (CHOOSE i \in 1..Len(listed) :
             /\ listed[i].name = name
             /\ \A k \in 1..(i - 1) : listed[k].name # name) - 1
    ELSE selected

_create_new_project(listed, selected, name_input, path_input, description_input) ==
    LET name == strip(name_input)
        path == IF strip(path_input) = <<>> THEN default_path ELSE strip(path_input)
        description == strip(description_input)
        call == add_project(load_config, name, path, description)
        loaded == _load_projects(call.file, selected)
    IN IF name = <<>>
       THEN Handled("Project name cannot be empty!", config_file, listed, selected)
       ELSE IF call.raised
       THEN Handled("Error", config_file, listed, selected)
       ELSE Handled("created", call.file, loaded.projects,
                    RowOf(loaded.projects, name, loaded.selected_index))

\* The handler changes the fields of project, the object of self.projects
\* under the selection, and then saves config, the Config a fresh
\* load_config returned for the check of the other projects: the object
\* changed is not one of config.projects. _load_projects then replaces
\* self.projects, so the changed object is dropped.
_edit_current_project(listed, selected, name_input, path_input, description_input) ==
    IF listed = <<>> \/ selected >= Len(listed)
    THEN Handled("", config_file, listed, selected)
    ELSE
    LET project == listed[selected + 1]
        new_name == IF strip(name_input) = <<>> THEN project.name ELSE strip(name_input)
        new_path == IF strip(path_input) = <<>> THEN project.path ELSE strip(path_input)
        new_description ==
            IF strip(description_input) = <<>>
               \/ lower(strip(description_input)) = <<"n", "o", "n", "e">>
            THEN project.description
            ELSE strip(description_input)
        config == load_config
        name_taken(i) == config[i + 1].name = new_name /\ new_name # project.name
        path_taken(i) == config[i + 1].path = new_path /\ new_path # project.path
        taken == {i \in 0..(Len(config) - 1) :
                     i # selected /\ (name_taken(i) \/ path_taken(i))}
        first == CHOOSE i \in taken : \A k \in taken : i <= k
        edited == [listed EXCEPT ![selected + 1] =
                       ProjectConfig(new_name, new_path, new_description)]
        saved == save_config(config)
        loaded == _load_projects(saved, selected)
    IN IF /\ new_name = project.name
          /\ new_path = project.path
          /\ new_description = project.description
       THEN Handled("No changes made", config_file, listed, selected)
       ELSE IF taken # {}
       THEN Handled(IF name_taken(first) THEN "name already exists"
                    ELSE "path already exists",
                    config_file, listed, selected)
       ELSE Handled("updated", saved, loaded.projects, loaded.selected_index)

_delete_current_project(listed, selected, confirm_input) ==
    IF listed = <<>> \/ selected >= Len(listed)
    THEN Handled("", config_file, listed, selected)
    ELSE
    LET project == listed[selected + 1]
        call == remove_project(load_config, project.name)
        loaded == _load_projects(call.file, selected)
    IN IF lower(strip(confirm_input)) # <<"y">>
       THEN Handled("Cancelled", config_file, listed, selected)
       ELSE IF call.returned
       THEN Handled("deleted", call.file, loaded.projects,
                    IF loaded.selected_index >= Len(loaded.projects)
                    THEN IF Len(loaded.projects) - 1 > 0 THEN Len(loaded.projects) - 1 ELSE 0
                    ELSE loaded.selected_index)
       ELSE Handled("Failed to delete project", call.file, listed, selected)

\* One turn of _main_loop: the handler of the key, then the redraw.
Turn(key, name_input, path_input, description_input, handled) ==
    /\ config_file' = handled.file
    /\ ui_projects' = handled.projects
    /\ selected_index' = handled.selected_index
    /\ screen' = _draw_projects(handled.projects, scroll_offset, terminal_height)
    /\ cli_call' = CliCall(key, name_input, path_input, description_input, handled.message)
    /\ UNCHANGED <<serverVars, scroll_offset, terminal_height, ttyVars>>

CreateNewProject(name_input, path_input, description_input) ==
    Turn("n", name_input, path_input, description_input,
         _create_new_project(ui_projects, selected_index,
                             name_input, path_input, description_input))

EditCurrentProject(name_input, path_input, description_input) ==
    Turn("e", name_input, path_input, description_input,
         _edit_current_project(ui_projects, selected_index,
                               name_input, path_input, description_input))

DeleteCurrentProject(confirm_input) ==
    Turn("d", confirm_input, <<>>, <<>>,
         _delete_current_project(ui_projects, selected_index, confirm_input))

\* ------------------------------------------------- the inputs of one run
NameInputs == {<<>>, <<"a">>, <<" ", "b">>}
PathInputs == {<<>>, <<"/", "a", " ">>}
DescriptionInputs == {<<>>, <<"d">>, <<"N", "o", "n", "e">>}
ConfirmInputs == {<<"y">>, <<"Y", " ">>, <<"n">>}

InitEditor ==
    /\ InitRegistry
    /\ InitChatManagers
    /\ ntools = 0
    /\ InitDatabase
    /\ IdleTools
    /\ Opened(<<>>, 24)

NextEditor ==
    \/ \E name_input \in NameInputs, path_input \in PathInputs,
          description_input \in DescriptionInputs :
          \/ CreateNewProject(name_input, path_input, description_input)
          \/ EditCurrentProject(name_input, path_input, description_input)
    \/ \E confirm_input \in ConfirmInputs : DeleteCurrentProject(confirm_input)
    \/ UpArrow
    \/ DownArrow

SpecEditor == InitEditor /\ [][NextEditor]_vars

\* ------------------------------------------------------------------ C20
\* what was entered at a prompt: the input without the blanks around it, a
\* blank input standing for the value the project had
Entered(input, previous) == IF strip(input) = <<>> THEN previous ELSE strip(input)

\* C20: when the edit of the selected project completes, the project's name,
\* path and description in the saved registry are the values entered (a
\* blank input keeps the value it had), the picker's reloaded list shows the
\* same, and every other project of the registry is as it was.
C20_EditIsPersisted ==
    [][(cli_call'.op = "e" /\ cli_call'.outcome = "updated")
       => LET row == selected_index + 1
              previous == config_file[row]
          IN /\ Len(config_file') = Len(config_file)
             /\ config_file'[row] =
                    ProjectConfig(Entered(cli_call'.name, previous.name),
                                  Entered(cli_call'.path, previous.path),
                                  Entered(cli_call'.description, previous.description))
             /\ \A other \in 1..Len(config_file) :
                    other # row => config_file'[other] = config_file[other]
             /\ ui_projects' = config_file']_vars

\* ------------------------------------------- ai_cli/ui.py: run, _main_loop
ESC == "ESC"    \* the character U+001B
ETX == "ETX"    \* the character U+0003, what Ctrl+C sends in raw mode

\* _get_key: sys.stdin.read(1) and, after an escape character,
\* sys.stdin.read(2); a read blocks until its characters have been typed.
_get_key(typed) ==
    IF typed = <<>> \/ (Head(typed) = ESC /\ Len(typed) < 3)
    THEN [blocked |-> TRUE, key |-> <<>>, rest |-> typed]
    ELSE IF Head(typed) = ESC
    THEN [blocked |-> FALSE, key |-> SubSeq(typed, 1, 3), rest |-> SubSeq(typed, 4, Len(typed))]
    ELSE [blocked |-> FALSE, key |-> <<Head(typed)>>, rest |-> Tail(typed)]

\* the picker is blocked in a read
Reading == picker_run.pc \in {"main_loop", "help"}

\* The user presses a key; keys are typed one at a time, when the picker
\* waits for one.
TypeKey(c) ==
    /\ Reading
    /\ _get_key(stdin).blocked
    /\ stdin' = Append(stdin, c)
    /\ UNCHANGED <<serverVars, config_file, ui_projects, selected_index, scroll_offset,
                   terminal_height, screen, cli_call, terminal, picker_run>>

\* The picker after the handler of a key: the loop goes on with the redraw,
\* or run() has returned through the finally clause of _main_loop.
LoopOn(key, got, handled, offset, tty, dialogs) ==
    /\ stdin' = got.rest
    /\ config_file' = handled.file
    /\ ui_projects' = handled.projects
    /\ selected_index' = handled.selected_index
    /\ scroll_offset' = offset
    /\ screen' = _draw_projects(handled.projects, offset, terminal_height)
    /\ cli_call' = CliCall(key, <<>>, <<>>, <<>>, handled.message)
    /\ terminal' = tty
    /\ picker_run' = PickerRun("main_loop", "", "", key, terminal.mode,
                               picker_run.dialogs + dialogs)
    /\ UNCHANGED <<serverVars, terminal_height>>

Return(key, got, ended_by, returned, tty) ==
    /\ stdin' = got.rest
    /\ cli_call' = CliCall(key, <<>>, <<>>, <<>>, "")
    /\ terminal' = _restore_terminal(tty)
    /\ picker_run' = PickerRun("returned", ended_by, returned, key, terminal.mode,
                               picker_run.dialogs)
    /\ UNCHANGED <<serverVars, config_file, ui_projects, selected_index, scroll_offset,
                   terminal_height, screen>>

Unhandled == Handled("", config_file, ui_projects, selected_index)

\* A sub-dialog: cooked mode for its prompts, raw mode again in its finally
\* clause. A KeyboardInterrupt at a prompt is caught by the dialog; any
\* other exception at a prompt leaves through the finally clauses of the
\* dialog and of _main_loop, and run() returns None.
Faults == {"none", "KeyboardInterrupt", "Exception"}

SubDialog(key, got, handled, fault) ==
    LET prompted == _restore_terminal_for_input(terminal)
        resumed == _setup_terminal_raw(prompted)
    IN IF fault = "Exception"
       THEN Return(key, got, "exception", "None", resumed)
       ELSE LoopOn(key, got,
                   IF fault = "KeyboardInterrupt"
                   THEN Handled("Cancelled", config_file, ui_projects, selected_index)
                   ELSE handled,
                   scroll_offset, resumed,
                   IF picker_run.dialogs < 2 THEN 1 ELSE 0)

SessionNameInputs == {<<>>, <<"a">>, <<"b">>}
SessionConfirmInputs == {<<"y">>, <<"n">>}

\* One turn of _main_loop: _get_key, the handler of the key, and the redraw
\* of the next turn.
MainLoopKey ==
    LET got == _get_key(stdin)
        key == got.key
        moved(direction) == _move_selection(ui_projects, selected_index, scroll_offset,
                                            terminal_height, direction)
        no_project == ui_projects = <<>> \/ selected_index >= Len(ui_projects)
    IN /\ picker_run.pc = "main_loop"
       /\ ~got.blocked
       /\ CASE key = <<ETX>> ->
                   Return("ctrl_c", got, "interrupt", "None", _restore_terminal(terminal))
            [] key = <<"q">> \/ key = <<ESC>> ->
                   Return("q", got, "quit", "None", terminal)
            [] key = <<"\r">> \/ key = <<"\n">> ->
                   IF ui_projects # <<>> /\ selected_index < Len(ui_projects)
                   THEN Return("enter", got, "selected", "project", terminal)
                   ELSE LoopOn("enter", got, Unhandled, scroll_offset, terminal, 0)
            [] key = <<ESC, "[", "A">> ->
                   LoopOn("up_arrow", got,
                          Handled("", config_file, ui_projects, moved(-1).selected_index),
                          moved(-1).scroll_offset, terminal, 0)
            [] key = <<ESC, "[", "B">> ->
                   LoopOn("down_arrow", got,
                          Handled("", config_file, ui_projects, moved(1).selected_index),
                          moved(1).scroll_offset, terminal, 0)
            [] key = <<"n">> ->
                   \E name_input \in SessionNameInputs, fault \in Faults :
                      SubDialog("n", got,
                                _create_new_project(ui_projects, selected_index,
                                                    name_input, <<>>, <<>>),
                                fault)
            [] key = <<"e">> ->
                   IF no_project
                   THEN LoopOn("e", got, Unhandled, scroll_offset, terminal, 0)
                   ELSE \E name_input \in SessionNameInputs, fault \in Faults :
                           SubDialog("e", got,
                                     _edit_current_project(ui_projects, selected_index,
                                                           name_input, <<>>, <<>>),
                                     fault)
            [] key = <<"d">> ->
                   IF no_project
                   THEN LoopOn("d", got, Unhandled, scroll_offset, terminal, 0)
                   ELSE \E confirm_input \in SessionConfirmInputs, fault \in Faults :
                           SubDialog("d", got,
                                     _delete_current_project(ui_projects, selected_index,
                                                             confirm_input),
                                     fault)
            [] key = <<"r">> ->
                   LET loaded == _load_projects(load_config, selected_index)
                   IN LoopOn("r", got,
                             Handled("", config_file, loaded.projects, loaded.selected_index),
                             scroll_offset, terminal, 0)
            [] key = <<"h">> \/ key = <<"?">> ->
                   /\ stdin' = got.rest
                   /\ cli_call' = CliCall("h", <<>>, <<>>, <<>>, "")
                   /\ picker_run' = PickerRun("help", "", "", "h", terminal.mode,
                                              picker_run.dialogs)
                   /\ UNCHANGED <<serverVars, config_file, ui_projects, selected_index,
                                  scroll_offset, terminal_height, screen, terminal>>
            [] OTHER -> LoopOn("other", got, Unhandled, scroll_offset, terminal, 0)

\* _show_help waits for any key, then the loop redraws
HelpKey ==
    LET got == _get_key(stdin)
    IN /\ picker_run.pc = "help"
       /\ ~got.blocked
       /\ stdin' = got.rest
       /\ screen' = _draw_projects(ui_projects, scroll_offset, terminal_height)
       /\ picker_run' = [picker_run EXCEPT !.pc = "main_loop"]
       /\ UNCHANGED <<serverVars, config_file, ui_projects, selected_index, scroll_offset,
                      terminal_height, cli_call, terminal>>

\* ------------------------------------------------ the keys of one session
Keys == {"q", ESC, "[", "A", "B", "\r", ETX, "n", "e", "d", "r", "h"}

InitSession ==
    /\ InitRegistry
    /\ InitChatManagers
    /\ ntools = 0
    /\ InitDatabase
    /\ IdleTools
    /\ \E n \in 0..2 : Opened(NumberedProjects(n), 24)

NextSession ==
    \/ \E c \in Keys : TypeKey(c)
    \/ MainLoopKey
    \/ HelpKey

SpecSession == InitSession /\ [][NextSession]_vars

\* ------------------------------------------------------------------ C21
\* C21: when the key the main loop is about to read is q or Escape, the
\* next thing that happens is that run() returns no selection, having read
\* that one key and no other: the picker neither waits for nor consumes
\* another key press.
C21_QuitKeysEndTheSession ==
    [][(/\ picker_run.pc = "main_loop"
        /\ stdin # <<>>
        /\ Head(stdin) \in {"q", ESC})
       => (/\ picker_run'.pc = "returned"
           /\ picker_run'.returned = "None"
           /\ stdin' = Tail(stdin))]_vars

\* ------------------------------------------------------------------ C22
\* C22: however run() ends (a project selected, quit, Ctrl+C, an exception
\* in a create, edit or delete dialog) the terminal is in cooked mode again
\* with the cursor shown; and whenever the main loop reads a key, also after
\* dialogs, the terminal is in raw mode.
C22_TerminalRestored ==
    /\ picker_run.pc = "returned"
          => (terminal.mode = "cooked" /\ terminal.cursor = "shown")
    /\ Reading => terminal.mode = "raw"
    /\ picker_run.key # "" => picker_run.read_in = "raw"

\* a dialog completed, the main loop read the next key, and the dialog that
\* key opened raised, which ended the session
C22_Witness ==
    /\ picker_run.pc = "returned"
    /\ picker_run.ended_by = "exception"
    /\ picker_run.dialogs >= 1
    /\ picker_run.read_in = "raw"

\* ======================================================================
\* Approval requests on a conversation paused at TOOL_APPROVAL
\* ======================================================================
MaxApprovals == 2   \* approval requests in one run

\* The service after one stream request of project 1 to the gemini provider
\* whose first answer asked for tools: the TOOL_APPROVAL step was sent, the
\* stream ended, and the session keeps the ChatManager with the transcript.
PausedRequest(resp) ==
    [Request("stream", 1, 1, 200, AfterToolApproval) EXCEPT
        !.iteration = 1, !.generations = 1, !.tool_rounds = 1,
        !.provider_messages = <<UserMessage(<<>>)>>,
        !.steps = <<ConversationStep("generating", NoContent, <<>>, <<>>, ""),
                    ConversationStep("tool_approval", resp.content, resp.tool_calls,
                                     <<>>, "")>>]

InitApprovals ==
    /\ ntools \in ChatToolCounts
    /\ now = 0
    /\ lastCall = [op |-> "none", arg |-> 0, result |-> 0]
    /\ nextSid = 2
    /\ \E resp \in GeminiGenerate(0, 1..ntools) :
          /\ resp.tool_calls # <<>>
          /\ managers = (1 :> [ChatManager("gemini", 1) EXCEPT
                                  !.messages = <<UserMessage(<<>>), AssistantMessage(resp)>>])
          /\ reqs = <<PausedRequest(resp)>>
    /\ sessions = create_session([sessions |-> <<>>, project_sessions |-> <<>>],
                                 1, 1, 1).sessions
    /\ project_sessions = create_session([sessions |-> <<>>, project_sessions |-> <<>>],
                                         1, 1, 1).project_sessions
    /\ IdleTools
    /\ IdleCli
    /\ projects = (1 :> ProjectRow("a", "/p", ""))
    /\ nextProjectId = 2
    /\ chat_history = <<>>
    /\ nextRowId = 1
    /\ global_settings = <<>>
    /\ response = NoResponse

NextApprovals ==
    \/ \E d \in Decisions(KnownIds) :
          /\ Len(reqs) < 1 + MaxApprovals
          /\ ApprovalRequest(1, 1, d[1], d[2])
    \/ \E r \in 1..Len(reqs) : ResumeAfterTools(r)
    \/ \E r \in 1..Len(reqs) : ExecuteTool(r)
    \/ \E r \in 1..Len(reqs) : FinishTools(r)
    \/ \E r \in 1..Len(reqs) : ContinueGenerate(r, {0})
    \/ \E r \in 1..Len(reqs) : Finish(r)
    \/ \E r \in 1..Len(reqs) : Fail(r)

SpecApprovals == InitApprovals /\ [][NextApprovals]_vars

\* ------------------------------------------------------------------ C23
\* the requests whose generator has sent TOOL_EXECUTING or GENERATING for the
\* conversation of session s and has not yet sent the step that follows: a
\* tool execution or a generation call of theirs is under way
StepsInFlight(s) ==
    {r \in 1..Len(reqs) :
        /\ reqs[r].status = 200
        /\ reqs[r].session_id = s
        /\ reqs[r].pc \in {"executing", "generating", "generating_again"}}

\* C23: a conversation never has more than one step in flight: no two of
\* its generation calls or tool executions are under way at the same time,
\* however stream and approval requests for its session interleave.
C23_OneStepInFlight ==
    \A s \in DOMAIN managers : Cardinality(StepsInFlight(s)) <= 1

\* ------------------------------------------------------------------ C24
\* C24: when a conversation ends with an error step (the provider raises
\* in a generation, or the continuation finds nothing to process), the
\* session that was live before the generator returns is still live
\* afterwards and still holds the chat manager with the transcript
\* accumulated so far.
C24_ErrorLeavesSessionLive ==
    [][\A r \in 1..Len(reqs) :
          (/\ reqs[r].pc = AfterError
           /\ reqs'[r].pc = "done"
           /\ reqs[r].session_id \in DOMAIN sessions)
          => /\ reqs[r].session_id \in DOMAIN sessions'
             /\ sessions'[reqs[r].session_id].chat_manager = reqs[r].session_id
             /\ managers'[reqs[r].session_id].messages
                    = managers[reqs[r].session_id].messages]_vars

\* ------------------------------------------------------------------ C25
\* the request's generator has sent COMPLETED without error and has saved
Saved(req) ==
    /\ req.status = 200
    /\ req.pc = AfterSave
    /\ req.steps # <<>>
    /\ Last(req.steps).state = "completed"
    /\ Last(req.steps).error = ""

Completing(r) == reqs[r].pc = "completed" /\ reqs'[r].pc = AfterSave

\* C25: a chat-history record is added exactly when a request's generator
\* goes past COMPLETED without error, one record per such step and none by
\* any other step (a pause at TOOL_APPROVAL, an error step), and over all
\* the requests of one conversation at most one of them saves a record.
C25_OneRecordPerConversation ==
    /\ [][Len(chat_history') = Len(chat_history)
              + (IF \E r \in 1..Len(reqs) : Completing(r) THEN 1 ELSE 0)]_vars
    /\ [](\A s \in DOMAIN managers :
             Cardinality({r \in 1..Len(reqs) :
                             reqs[r].session_id = s /\ Saved(reqs[r])}) <= 1)

\* ------------------------------------------------------------------ C26
RECURSIVE ToolCallsListed(_)
\* the tool calls the assistant messages of a transcript list, over all batches
ToolCallsListed(messages) ==
    IF messages = <<>> THEN 0
    ELSE Len(Head(messages).tool_calls) + ToolCallsListed(Tail(messages))

RECURSIVE Executions(_, _)
\* the tool executions the requests of session s have made
Executions(requests, s) ==
    IF requests = <<>> THEN 0
    ELSE (IF Head(requests).status = 200 /\ Head(requests).session_id = s
          THEN Len(Head(requests).executed) ELSE 0)
         + Executions(Tail(requests), s)

\* C26: each tool call of a TOOL_APPROVAL batch is executed at most once over
\* the life of the conversation, however many approval requests are sent for
\* its session: the executions made for a conversation never outnumber the
\* tool calls its transcript lists.
C26_EachCallExecutedAtMostOnce ==
    \A s \in DOMAIN managers :
        Executions(reqs, s) <= ToolCallsListed(managers[s].messages)

\* ------------------------------------------------------------------ C27
\* C27: a pending tool call whose id is in the denied list of an approval
\* request is never executed by that request, also when the id is in the
\* approved list as well, and the result the request records for it is the
\* denial.
C27_DeniedNeverExecuted ==
    \A r \in 1..Len(reqs) :
        LET req == reqs[r] IN
        /\ \A i \in 1..Len(req.executed) : req.executed[i].id \notin req.denied_tools
        /\ \A k \in 1..Len(req.steps) :
              \A j \in 1..Len(req.steps[k].tool_results) :
                  req.steps[k].tool_results[j].tool_call_id \in req.denied_tools
                  => req.steps[k].tool_results[j].outcome = "denied"

\* ------------------------------------------------------------------ C28
\* the pending calls of a request the user approved, and those the user
\* approved or denied, in the order the assistant listed them
Approved(req) ==
    SelectSeq(req.pending, LAMBDA call : call.id \in req.approved_tools)
Decided(req) ==
    SelectSeq(req.pending,
              LAMBDA call : call.id \in req.approved_tools \cup req.denied_tools)

\* C28: within the batch of one approval request the approved calls are
\* executed one at a time in the order the assistant listed them, and when
\* the request goes on to GENERATING every approved call has been executed
\* and exactly one tool message per approved or denied call has been appended
\* to the transcript, in that order; the request issues no generation call
\* before that.
C28_BatchInOrder ==
    /\ [](\A r \in 1..Len(reqs) :
             /\ Len(reqs[r].executed) <= Len(Approved(reqs[r]))
             /\ reqs[r].executed = SubSeq(Approved(reqs[r]), 1, Len(reqs[r].executed)))
    /\ [][\A r \in 1..Len(reqs) :
             LET req == reqs[r]
                 before == managers[req.session_id].messages
                 after == managers'[req.session_id].messages
                 decided == Decided(req)
             IN
             /\ Len(reqs'[r].executed) <= Len(req.executed) + 1
             /\ req.pc = "executing" => reqs'[r].generations = req.generations
             /\ (req.pc = "executing" /\ reqs'[r].pc = "generating")
                => /\ req.executed = Approved(req)
                   /\ Len(after) = Len(before) + Len(decided)
                   /\ SubSeq(after, 1, Len(before)) = before
                   /\ \A j \in 1..Len(decided) :
                         LET m == after[Len(before) + j] IN
                         /\ m.role = "tool"
                         /\ m.tool_call_id = decided[j].name
                         /\ m.content.kind =
                               IF decided[j].id \in req.approved_tools
                               THEN "executed" ELSE "denied"]_vars

\* a request has executed the one approved call of a batch of two, has
\* appended the tool messages of both and is about to generate
C28_Witness ==
    \E r \in 1..Len(reqs) :
        /\ reqs[r].kind = "approval"
        /\ reqs[r].pc = "generating"
        /\ Len(reqs[r].pending) = 2
        /\ Len(Decided(reqs[r])) = 2
        /\ Len(reqs[r].executed) = 1
        /\ reqs[r].pending[1].id # reqs[r].pending[2].id
        /\ Last(managers[reqs[r].session_id].messages).role = "tool"

\* ---------------------------------------------- long conversations (C29, C30)
\* A gemini conversation of project 1 that has been through some approval
\* rounds already and is paused at TOOL_APPROVAL again: its transcript is the
\* user message, one assistant message with two tool calls and their two tool
\* messages per finished round, and the assistant message of the batch that
\* is pending now.
PriorRounds == {5, 6}        \* approval rounds finished before the run starts
MaxContextApprovals == 2     \* approval requests in one run

RoundCalls == <<ToolCall(GeminiCallId(0, 1000), 1), ToolCall(GeminiCallId(0, 1001), 1)>>
RoundAnswer ==
    [content |-> Content("text", "", 0, 0, 1), tool_calls |-> RoundCalls, raised |-> FALSE]

\* what one finished round appended (chat_manager.py lines 227-234, 258-265)
Round == <<AssistantMessage(RoundAnswer)>>
         \o ToolMessages(ToolResults(RoundCalls, Ids(RoundCalls), {}))

RECURSIVE Rounds(_)
Rounds(n) == IF n = 0 THEN <<>> ELSE Round \o Rounds(n - 1)

\* the approval request that finished the last of those rounds
PausedContinuation(before, resp) ==
    [Request("approval", 1, 1, 200, AfterToolApproval) EXCEPT
        !.approved_tools = Ids(RoundCalls), !.pending = RoundCalls,
        !.index = Len(RoundCalls) + 1, !.executed = RoundCalls,
        !.iteration = 1, !.generations = 1, !.tool_rounds = 1,
        !.provider_messages = _build_provider_context(before),
        !.steps = <<ConversationStep("tool_executing", NoContent, <<>>, <<>>, ""),
                    ConversationStep("generating", NoContent, <<>>,
                                     ToolResults(RoundCalls, Ids(RoundCalls), {}), ""),
                    ConversationStep("tool_approval", resp.content, resp.tool_calls,
                                     <<>>, "")>>]

InitContext ==
    /\ ntools \in ChatToolCounts
    /\ now = 0
    /\ lastCall = [op |-> "none", arg |-> 0, result |-> 0]
    /\ nextSid = 2
    /\ \E resp \in GeminiGenerate(0, 1..ntools), n \in PriorRounds, cmd \in ChatCommands :
          LET before == <<UserMessage(cmd)>> \o Rounds(n) IN
          /\ resp.tool_calls # <<>>
          /\ managers = (1 :> [ChatManager("gemini", 1) EXCEPT
                                  !.messages = Append(before, AssistantMessage(resp))])
          /\ reqs = <<PausedContinuation(before, resp)>>
    /\ sessions = create_session([sessions |-> <<>>, project_sessions |-> <<>>],
                                 1, 1, 1).sessions
    /\ project_sessions = create_session([sessions |-> <<>>, project_sessions |-> <<>>],
                                         1, 1, 1).project_sessions
    /\ IdleTools
    /\ IdleCli
    /\ projects = (1 :> ProjectRow("a", "/p", ""))
    /\ nextProjectId = 2
    /\ chat_history = <<>>
    /\ nextRowId = 1
    /\ global_settings = <<>>
    /\ response = NoResponse

\* the client sends the next approval once the stream of the last has ended
NextContext ==
    \/ \E d \in Decisions(KnownIds) :
          /\ InFlight = {}
          /\ Len(reqs) < 1 + MaxContextApprovals
          /\ ApprovalRequest(1, 1, d[1], d[2])
    \/ \E r \in 1..Len(reqs) : ResumeAfterTools(r)
    \/ \E r \in 1..Len(reqs) : ExecuteTool(r)
    \/ \E r \in 1..Len(reqs) : FinishTools(r)
    \/ \E r \in 1..Len(reqs) : ContinueGenerate(r, {0})
    \/ \E r \in 1..Len(reqs) : Finish(r)
    \/ \E r \in 1..Len(reqs) : Fail(r)

SpecContext == InitContext /\ [][NextContext]_vars

\* ------------------------------------------------------------------ C29
\* request r issues a generation call in this step
Generates(r) == reqs'[r].generations = reqs[r].generations + 1

\* what the context of a transcript has to be
IsContextOf(context, transcript) ==
    LET n == Len(transcript) IN
    /\ n <= 20 => context = transcript
    /\ n > 20 =>
          /\ Len(context) = 20
          /\ \A i \in 2..20 : context[i] = transcript[n - 20 + i]
          /\ context[1] = IF transcript[1].role = "user" /\ transcript[1].cmd # <<>>
                          THEN transcript[1]
                          ELSE transcript[n - 19]
    /\ n > 0 => Last(context) = Last(transcript)

\* C29: the context handed to the provider is the whole transcript when it
\* has at most 20 messages; otherwise it is the 20 most recent messages in
\* order, with the first message of the transcript in place of the oldest of
\* them when that first message is a user message matching "call N tools M
\* times"; the latest transcript message is always the last of the context.
C29_ContextIsRecentWindow ==
    [][\A r \in 1..Len(reqs) :
          Generates(r)
          => IsContextOf(reqs'[r].provider_messages,
                         managers[reqs[r].session_id].messages)]_vars

\* a generation call has been made on a transcript of more than 20 messages
\* whose first message was forced into the context
C29_Witness ==
    \E r \in 1..Len(reqs) :
        LET context == reqs[r].provider_messages IN
        /\ reqs[r].generations >= 1
        /\ Len(context) = 20
        /\ context[1].role = "user"
        /\ context[1].cmd # <<>>
        /\ Len(managers[reqs[r].session_id].messages) > 20
        /\ context[2] # managers[reqs[r].session_id].messages[2]

\* --------------------------------------------- providers/gemini_provider.py
Part(type, name, content) == [type |-> type, name |-> name, content |-> content]

FunctionCalls(tool_calls) ==
    [i \in 1..Len(tool_calls) |-> Part("functionCall", tool_calls[i].name, NoContent)]

\* format_messages: one Gemini message per message that is not a system
\* message; a tool message becomes a user message with a functionResponse
\* named after its tool_call_id
FormatMessage(msg) ==
    LET role == IF msg.role = "user" THEN "user" ELSE "model" IN
    IF msg.tool_calls # <<>>
    THEN [role |-> role,
          parts |-> (IF Truthy(msg.content) THEN <<Part("text", 0, msg.content)>> ELSE <<>>)
                    \o FunctionCalls(msg.tool_calls)]
    ELSE IF msg.role = "tool"
    THEN [role |-> "user",
          parts |-> <<Part("functionResponse", msg.tool_call_id, msg.content)>>]
    ELSE [role |-> role, parts |-> <<Part("text", 0, msg.content)>>]

format_messages(messages) ==
    LET kept == SelectSeq(messages, LAMBDA msg : msg.role # "system")
    IN [i \in 1..Len(kept) |-> FormatMessage(kept[i])]

\* ------------------------------------------------------------------ C30
IsFunctionResponse(gemini_message) ==
    /\ gemini_message.parts # <<>>
    /\ gemini_message.parts[1].type = "functionResponse"

Calls(gemini_message, name) ==
    \E p \in 1..Len(gemini_message.parts) :
        /\ gemini_message.parts[p].type = "functionCall"
        /\ gemini_message.parts[p].name = name

\* the tool result at position i follows, with only tool results in
\* between, a model message that calls its tool
Answered(sent, i) ==
    \E j \in 1..(i - 1) :
        /\ Calls(sent[j], sent[i].parts[1].name)
        /\ \A k \in (j + 1)..i : IsFunctionResponse(sent[k])

\* C30: in every context handed to the provider each tool result is
\* preceded, within that context, by the assistant message whose tool calls
\* it answers, also when the context has been trimmed to 20 messages.
C30_ToolResultsFollowTheirCalls ==
    [][\A r \in 1..Len(reqs) :
          Generates(r)
          => LET sent == format_messages(reqs'[r].provider_messages) IN
             \A i \in 1..Len(sent) : IsFunctionResponse(sent[i]) => Answered(sent, i)]_vars

\* ------------------------------------------------------------------ C31
\* The echo provider called directly, as a test driver does: generate is
\* called on a message list, the tool calls it returns are all run and their
\* results appended, and once the provider has answered without tool calls
\* the driver may append a further user message and go on.
MaxEchoCommands == 2     \* user messages in one run
DirectCommands == {<<>>, <<1, 1>>, <<1, 2>>, <<1, 4>>}
DirectToolCounts == {1, 2}

Direct(op, arg, result) == [op |-> op, arg |-> arg, result |-> result]

InitEchoDirect ==
    /\ sessions = <<>>
    /\ project_sessions = <<>>
    /\ nextSid = 1
    /\ now = 0
    /\ lastCall = Direct("none", 0, 0)
    /\ \E cmd \in DirectCommands :
          managers = (1 :> [ChatManager("echo_test", 1) EXCEPT
                               !.messages = <<UserMessage(cmd)>>])
    /\ reqs = <<>>
    /\ ntools \in DirectToolCounts
    /\ IdleTools
    /\ IdleCli
    /\ projects = <<>>
    /\ nextProjectId = 1
    /\ chat_history = <<>>
    /\ nextRowId = 1
    /\ global_settings = <<>>
    /\ response = NoResponse

DirectStep(op, messages, result) ==
    /\ managers' = [managers EXCEPT ![1].messages = messages]
    /\ lastCall' = Direct(op, Len(managers[1].messages), result)
    /\ UNCHANGED <<sessions, project_sessions, nextSid, now, reqs, envVars, dbVars,
                   settingsVars>>

\* provider.generate(messages, tools) and the reply appended to the list
DirectGenerate(offset) ==
    LET messages == managers[1].messages
        resp == EchoGenerate(messages, ntools, offset, 1000)
    IN /\ Last(messages).role \in {"user", "tool"}
       /\ DirectStep("generate", Append(messages, AssistantMessage(resp)),
                     Len(resp.tool_calls))

\* every call of the last reply is run and answered with a tool message
DirectTools ==
    LET messages == managers[1].messages
        calls == Last(messages).tool_calls
    IN /\ calls # <<>>
       /\ DirectStep("tools",
                     messages \o ToolMessages(ToolResults(calls, Ids(calls), {})),
                     Len(calls))

\* a further user message once the provider has answered without tool calls
DirectUser(cmd) ==
    LET messages == managers[1].messages IN
    /\ Last(messages).role = "assistant"
    /\ Last(messages).tool_calls = <<>>
    /\ Cardinality(UserIndexes(messages)) < MaxEchoCommands
    /\ DirectStep("user", Append(messages, UserMessage(cmd)), 0)

NextEchoDirect ==
    \/ \E offset \in {0, 1} : DirectGenerate(offset)
    \/ DirectTools
    \/ \E cmd \in DirectCommands : DirectUser(cmd)

SpecEchoDirect == InitEchoDirect /\ [][NextEchoDirect]_vars

\* the assistant turns carrying tool calls after position start
RoundsSince(messages, start) ==
    Cardinality({i \in (start + 1)..Len(messages) :
                    messages[i].role = "assistant" /\ messages[i].tool_calls # <<>>})

NothingToProcess(r) ==
    /\ reqs[r].pc = "resume"
    /\ \/ Manager(r).messages = <<>>
       \/ Last(Manager(r).messages).tool_calls = <<>>

\* the continuation of request r has emitted only a COMPLETED step with an error
OnlyAnError(req) ==
    /\ req.kind = "approval"
    /\ Len(req.steps) = 1
    /\ req.steps[1].state = "completed"
    /\ req.steps[1].error # ""
    /\ req.executed = <<>>
    /\ req.generations = 0

\* C32: a continuation invoked while the transcript is empty or its last
\* message carries no tool calls emits a single COMPLETED step with an error
\* and stops: it executes no tool, makes no generation call, leaves the
\* transcript as it is and persists nothing.
C32_NothingToProcessStops ==
    [][\A r \in 1..Len(reqs) :
          /\ (NothingToProcess(r) /\ reqs'[r] # reqs[r])
             => /\ OnlyAnError(reqs'[r])
                /\ reqs'[r].pc = AfterError
                /\ managers' = managers
                /\ chat_history' = chat_history
          /\ (OnlyAnError(reqs[r]) /\ reqs'[r] # reqs[r])
             => /\ OnlyAnError(reqs'[r])
                /\ reqs[r].pc = AfterError
                /\ reqs'[r].pc = "done"
                /\ reqs'[r].steps = reqs[r].steps
                /\ managers' = managers
                /\ chat_history' = chat_history]_vars

\* an approval request found no tool calls to process and its stream has ended
C32_Witness ==
    \E r \in 1..Len(reqs) :
        /\ OnlyAnError(reqs[r])
        /\ reqs[r].pc = "done"
        /\ reqs[r].steps[1].error = "No tool calls found to process"

\* ------------------------------------------------------------------ C33
\* one step of a step generator; the route's "async for" drives a generator
\* until it returns, and every await of a generator comes back (the provider
\* and the tools time out)
GeneratorStep ==
    \E r \in 1..Len(reqs) :
        \/ StartConversation(r)
        \/ StartGenerate(r, {0})
        \/ ResumeAfterTools(r)
        \/ ExecuteTool(r)
        \/ FinishTools(r)
        \/ ContinueGenerate(r, {0})
        \/ GenerateAgain(r, {0})
        \/ Finish(r)
        \/ Fail(r)

SpecChatFair == SpecChat /\ WF_vars(GeneratorStep)

Terminal(step) == step.state \in {"completed", "tool_approval"}

\* the generator of the request has sent its last step
Ended(req) == req.pc \in {"completed", AfterError, "done"}

StepsWellFormed(req) ==
    /\ \A i \in 1..(Len(req.steps) - 1) : ~Terminal(req.steps[i])
    /\ Ended(req) <=> (req.steps # <<>> /\ Terminal(Last(req.steps)))
    /\ (req.kind = "stream" /\ req.steps # <<>>) => req.steps[1].state = "generating"
    /\ \A i \in 1..Len(req.steps) :
          req.steps[i].state = "tool_executing" => (req.kind = "approval" /\ i = 1)
    /\ req.executed # <<>> => (req.steps # <<>> /\ req.steps[1].state = "tool_executing")

\* C33: every start_conversation or continue_conversation_after_tools
\* invocation comes to an end, and its steps end with exactly one COMPLETED
\* or TOOL_APPROVAL step with nothing after it; GENERATING is the first step
\* of start_conversation; TOOL_EXECUTING is sent only by the continuation, as
\* its first step, before any tool of the batch is executed.
C33_StepsEndOnce ==
    /\ [](\A r \in 1..Len(reqs) : reqs[r].status = 200 => StepsWellFormed(reqs[r]))
    /\ \A r \in 1..MaxRequests :
          [](r <= Len(reqs) => <>(r <= Len(reqs) /\ reqs[r].pc = "done"))
    /\ [][\A r \in 1..Len(reqs) : reqs[r].pc = "done" => reqs'[r] = reqs[r]]_vars

\* a continuation has sent TOOL_EXECUTING, run a tool, sent GENERATING and
\* ended with COMPLETED
C33_Witness ==
    \E r \in 1..Len(reqs) :
        /\ reqs[r].kind = "approval"
        /\ reqs[r].pc = "done"
        /\ reqs[r].executed # <<>>
        /\ Len(reqs[r].steps) >= 3
        /\ Last(reqs[r].steps).state = "completed"

\* ------------------------------------------------------------------ C34
\* C34: after any sequence of registry calls the two maps agree: the
\* project-to-session map holds (p, s) exactly when the id-to-session map
\* holds a session with id s whose project is p.
C34_MapsAgree ==
    /\ \A p \in DOMAIN project_sessions :
          /\ project_sessions[p] \in DOMAIN sessions
          /\ sessions[project_sessions[p]].project_id = p
    /\ \A s \in DOMAIN sessions :
          /\ sessions[s].project_id \in DOMAIN project_sessions
          /\ project_sessions[sessions[s].project_id] = s

\* a session has been removed by id while the session of the other project
\* is still registered in both maps
C34_Witness ==
    /\ lastCall.op \in {"cleanup_session", "cleanup_expired_sessions"}
    /\ nextSid > 2
    /\ Cardinality(DOMAIN sessions) = 1
    /\ Cardinality(DOMAIN project_sessions) = 1

\* ------------------------------------------------------------------ C35
PairwiseDistinctIds(tool_calls) ==
    \A i, j \in 1..Len(tool_calls) : i # j => tool_calls[i].id # tool_calls[j].id

\* C35: within one TOOL_APPROVAL step the tool calls carry pairwise distinct
\* ids, whichever provider produced them, so that an id of an approval
\* request decides exactly one tool call.
C35_DistinctIdsInBatch ==
    \A r \in 1..Len(reqs) :
        \A i \in 1..Len(reqs[r].steps) :
            reqs[r].steps[i].state = "tool_approval"
            => PairwiseDistinctIds(reqs[r].steps[i].tool_calls)

\* ------------------------------------------------------------------ C36
\* A conversation of project 1 is paused at TOOL_APPROVAL; the project can be
\* deleted through the project routes at any moment, and the client sends
\* its approvals one after the other.
NextDeletion ==
    \/ \E project_id \in 1..MaxProjects : delete_project(project_id)
    \/ \E d \in Decisions(KnownIds) :
          /\ InFlight = {}
          /\ Len(reqs) < 1 + MaxApprovals
          /\ ApprovalRequest(1, 1, d[1], d[2])
    \/ \E r \in 1..Len(reqs) : ResumeAfterTools(r)
    \/ \E r \in 1..Len(reqs) : ExecuteTool(r)
    \/ \E r \in 1..Len(reqs) : FinishTools(r)
    \/ \E r \in 1..Len(reqs) : ContinueGenerate(r, {0})
    \/ \E r \in 1..Len(reqs) : Finish(r)
    \/ \E r \in 1..Len(reqs) : Fail(r)

SpecDeletion == InitApprovals /\ [][NextDeletion]_vars

\* the project ids handed out so far that are no longer stored: AUTOINCREMENT
\* never hands an id out twice, so these are the deleted projects
DeletedProjects == (1..(nextProjectId - 1)) \ DOMAIN projects

\* C36: once a project has been deleted no chat-history row of its id exists
\* in any later state, also when a conversation of that project was paused at
\* TOOL_APPROVAL at the time of the delete and completes afterwards.
C36_NoHistoryOfDeletedProject ==
    \A i \in 1..Len(chat_history) : chat_history[i].project_id \notin DeletedProjects

\* ------------------------------------------------- routes/chat_memory.py
\* DELETE /{project_id}/chat/history/messages/{message_id}: id is the
\* project id of the request and status the HTTP status
DeleteMessageRequest(project_id, message_id) ==
    /\ chat_history' = delete_message(chat_history, message_id)
    /\ response' = IF chat_history' # chat_history
                   THEN Response("delete_message_request", project_id, "", "", "", 200,
                                 "Message deleted successfully")
                   ELSE Response("delete_message_request", project_id, "", "", "", 404,
                                 "Message not found")
    /\ UNCHANGED <<registryVars, chatVars, projects, nextProjectId, nextRowId,
                   global_settings>>

NextMemoryRoutes ==
    \/ NextMemory
    \/ \E project_id \in ProjectIds, message_id \in 1..MemoryRows :
          DeleteMessageRequest(project_id, message_id)

SpecMemoryRoutes == Init /\ [][NextMemoryRoutes]_vars

\* ------------------------------------------------------------------ C37
\* the records of rows that are no longer in after
Removed(rows, after) ==
    {i \in 1..Len(rows) : \A j \in 1..Len(after) : after[j].id # rows[i].id}

\* C37: a delete-message request addressed to project P removes a
\* chat-history record only if the record belongs to P; a message id of
\* another project's record leaves that record in place.
C37_DeleteMessageStaysInProject ==
    [][response'.op = "delete_message_request" =>
          \A i \in Removed(chat_history, chat_history') :
              chat_history[i].project_id = response'.id]_vars

\* ------------------------------------------------------------------ C38
AfterSaveAttempt_propagating(req, save_raises) ==
    IF save_raises
    THEN [Emit(req, ErrorStep("AI generation error: ")) EXCEPT !.pc = "done"]
    ELSE [req EXCEPT !.pc = AfterSave]

\* the generator after _save_final_conversation has returned: an exception
\* of the save is caught inside it and printed (chat_manager.py lines 464-466)
AfterSaveAttempt(req, save_raises) == [req EXCEPT !.pc = AfterSave]

\* Finish with a history store that raises in save_message: no row is added
FinishSaveFails(r) ==
    LET req == reqs[r] IN
    /\ req.pc = "completed"
    /\ UserIndexes(Manager(r).messages) # {}
    /\ SetRegistry(cleanup_session(Registry, req.session_id))
    /\ reqs' = [reqs EXCEPT ![r] = AfterSaveAttempt(req, TRUE)]
    /\ UNCHANGED <<nextSid, now, lastCall, managers, envVars, dbVars, settingsVars>>

NextSaveFailure ==
    \/ NextChat
    \/ \E r \in 1..Len(reqs) : FinishSaveFails(r)

SpecSaveFailure == InitChat /\ [][NextSaveFailure]_vars

\* the save of request r has been attempted and was to add a row
SaveAttempted(r) ==
    /\ reqs[r].pc = "completed"
    /\ reqs'[r].pc # "completed"
    /\ UserIndexes(Manager(r).messages) # {}

\* C38: when saving the finished conversation fails, the failure is
\* swallowed: the steps the caller has received are those of a successful
\* save, the last one COMPLETED with the reply content and no error, and
\* the generator returns as after a successful save.
C38_SaveFailureSwallowed ==
    [][\A r \in 1..Len(reqs) :
          (SaveAttempted(r) /\ chat_history' = chat_history)
          => /\ reqs'[r] = [reqs[r] EXCEPT !.pc = AfterSave]
             /\ Last(reqs'[r].steps).state = "completed"
             /\ Last(reqs'[r].steps).error = ""
             /\ \E k \in 1..Len(Manager(r).messages) :
                   /\ Manager(r).messages[k].role = "assistant"
                   /\ Manager(r).messages[k].tool_calls = <<>>
                   /\ Manager(r).messages[k].content = Last(reqs'[r].steps).content]_vars

C38_Witness ==
    \E r \in 1..Len(reqs) :
        /\ Saved(reqs[r])
        /\ UserIndexes(Manager(r).messages) # {}
        /\ chat_history = <<>>

\* ----------------------------------- providers/gemini_provider.py, parsing
MaxParts == 3   \* parts of the first candidate
FinishReasons == {"", "STOP", "MAX_TOKENS", "SAFETY"}   \* "" is no finishReason
BlockReasons == {"", "SAFETY"}                          \* "" is no blockReason
PartKinds == {"text", "functionCall"}

\* a raw response: candidates is "missing", "empty" or "present"
RawResponse(candidates, blockReason, finishReason, parts) ==
    [candidates |-> candidates, blockReason |-> blockReason,
     finishReason |-> finishReason, parts |-> parts]

RawResponses ==
    {RawResponse(candidates, blockReason, "", <<>>) :
        candidates \in {"missing", "empty"}, blockReason \in BlockReasons}
    \cup {RawResponse("present", "", finishReason, parts) :
            finishReason \in FinishReasons,
            parts \in UNION {[1..k -> PartKinds] : k \in 0..MaxParts}}

ChatResponse(content, finish_reason, tool_calls) ==
    [content |-> content, finish_reason |-> finish_reason, tool_calls |-> tool_calls,
     requires_tool_execution |-> tool_calls # <<>>]

\* str.lower on the finish reasons
Lower(reason) ==
    CASE reason = "STOP" -> "stop"
      [] reason = "MAX_TOKENS" -> "max_tokens"
      [] reason = "SAFETY" -> "safety"
      [] OTHER -> reason

\* GeminiProvider.parse_response; rnd[i] is the random suffix drawn for part i
parse_response(raw_response, timestamp, rnd) ==
    IF raw_response.candidates # "present"
    THEN ChatResponse(Content("text", "", 0, 0, 0),
                      IF raw_response.candidates = "empty" /\ raw_response.blockReason # ""
                      THEN "blocked_" \o raw_response.blockReason
                      ELSE "stop",
                      <<>>)
    ELSE LET parts == raw_response.parts
             calls == {i \in 1..Len(parts) : parts[i] = "functionCall"}
             texts == {i \in 1..Len(parts) : parts[i] = "text"}
             nth(k) == CHOOSE i \in calls : Cardinality({j \in calls : j <= i}) = k
             tool_calls == [k \in 1..Cardinality(calls) |->
                               ToolCall(GeminiCallId(timestamp, rnd[nth(k)]), 1)]
             reported == Lower(IF raw_response.finishReason = "" THEN "STOP"
                               ELSE raw_response.finishReason)
             finish_reason == IF reported = "stop" THEN "stop"
                              ELSE IF Len(tool_calls) > 0 THEN "tool_calls"
                              ELSE reported
         IN ChatResponse(Content("text", "", 0, 0, Cardinality(texts)),
                         finish_reason, tool_calls)

NotParsed == ChatResponse(NoContent, "", <<>>)

\* call_api has returned raw_response
CallApi(raw_response) ==
    /\ response.op = "parse_response"
    /\ response' = [op |-> "call_api", raw_response |-> raw_response, parsed |-> NotParsed]
    /\ UNCHANGED <<registryVars, chatVars, projects, nextProjectId, chat_history,
                   nextRowId, global_settings>>

ParseResponse ==
    /\ response.op = "call_api"
    /\ \E rnd \in [1..MaxParts -> RandomSuffixes] :
          response' = [response EXCEPT
                          !.op = "parse_response",
                          !.parsed = parse_response(response.raw_response, now, rnd)]
    /\ UNCHANGED <<registryVars, chatVars, projects, nextProjectId, chat_history,
                   nextRowId, global_settings>>

InitParse ==
    /\ InitRegistry
    /\ InitChatManagers
    /\ ntools = 1
    /\ IdleTools
    /\ IdleCli
    /\ projects = <<>>
    /\ nextProjectId = 1
    /\ chat_history = <<>>
    /\ nextRowId = 1
    /\ global_settings = <<>>
    /\ \E raw_response \in RawResponses :
          response = [op |-> "call_api", raw_response |-> raw_response,
                      parsed |-> NotParsed]

NextParse ==
    \/ \E raw_response \in RawResponses : CallApi(raw_response)
    \/ ParseResponse

SpecParse == InitParse /\ [][NextParse]_vars

\* ------------------------------------------------------------------ C39
\* C39: for every Gemini response from which at least one tool call is
\* extracted, the parsed finish_reason is "tool_calls", whatever finish
\* reason the candidate reported, STOP included.
C39_ToolCallsForceFinishReason ==
    (response.op = "parse_response" /\ response.parsed.tool_calls # <<>>)
    => response.parsed.finish_reason = "tool_calls"

\* ----------------------------------------------- a run of edit_file calls
\* edit_file calls on the project's file f and on its backup, one after
\* the other, as the tool loop of a conversation issues them
EditCalls ==
    [file_path : {<<"f">>, <<"f.backup">>},
     old_text : OldTexts \cup {<<"c">>},
     new_text : NewTexts \cup {<<Surrogate>>}]

InitEdit ==
    /\ InitRegistry
    /\ InitChatManagers
    /\ ntools = 0
    /\ InitDatabase
    /\ tools = {"read_file", "write_file", "edit_file"}
    /\ disk \in FilesDisks
    /\ \E kwargs \in EditCalls :
          tool_result = Pending("edit_file", <<Sep, "proj">>, kwargs)
    /\ effects = {}
    /\ IdleCli

\* the next call of the tool arrives
NextEditCall(kwargs) ==
    /\ tool_result.op = "execute"
    /\ tool_result' = Pending("edit_file", tool_result.project_path, kwargs)
    /\ UNCHANGED <<registryVars, managers, reqs, ntools, cliVars, tools, disk, effects,
                   dbVars, settingsVars>>

NextEdit ==
    \/ EditFile
    \/ \E kwargs \in EditCalls : NextEditCall(kwargs)

SpecEdit == InitEdit /\ [][NextEdit]_vars

\* ------------------------------------------------------------------ C40
\* content with the occurrence of old_text at position i replaced by new_text
ReplacedAt(content, i, old_text, new_text) ==
    SubSeq(content, 1, i - 1) \o new_text
    \o SubSeq(content, i + Len(old_text), Len(content))

\* C40: after every successful edit_file call the sibling backup file holds
\* exactly the content the edited file had immediately before that edit,
\* and the edited file equals that content with the occurrence of old_text
\* replaced by new_text; a failed edit leaves both the file and any existing
\* backup unchanged.
C40_BackupHoldsPreEditContent ==
    [][(/\ tool_result'.op = "execute"
        /\ tool_result.tool_name = "edit_file"
        /\ tool_result.kwargs.file_path = <<"f">>
        /\ disk[<<"proj", "f">>].kind = "file") =>
        LET before == disk[<<"proj", "f">>].content
            backup == <<"proj", "f.backup">>
        IN  IF tool_result'.result.success
            THEN /\ Node(disk', Locate(disk', backup)) = File(before)
                 /\ \E i \in Positions(before, tool_result.kwargs.old_text) :
                       disk'[<<"proj", "f">>]
                           = File(ReplacedAt(before, i, tool_result.kwargs.old_text,
                                             tool_result.kwargs.new_text))
            ELSE /\ disk'[<<"proj", "f">>] = disk[<<"proj", "f">>]
                 /\ Node(disk', Locate(disk', backup))
                        = Node(disk, Locate(disk, backup))]_vars
====
